---------------------------- MODULE Spec2Model ----------------------------
(***************************************************************************)
(* A model of the Steelmind_OS kernel: the physical frame allocator and    *)
(* the virtual-memory manager (kernel/src/memory.rs), the user-program     *)
(* loader (kernel/src/loader.rs) and the RAM-disk container                *)
(* (kernel/src/ram_disk.rs, bootimage/src/main.rs).                        *)
(*                                                                         *)
(* Addresses are kept as page-table index tuples <<l4, l3, l2, l1>>: TLC's *)
(* integers are 32 bits wide and a 48-bit virtual address does not fit.    *)
(***************************************************************************)
EXTENDS Integers, Sequences, FiniteSets, TLC

VARIABLES
    mem,          \* Memory (frame allocator, page tables, RAM words, CR3 per core)
    user_tables,  \* the OffsetPageTables returned by create_user_page_table and held by callers
    held,         \* frames a caller took with allocate_frame and still holds
    written,      \* history: <<l4 frame, page>> -> the last value written through that user page
    hist,         \* history: the last Memory call, with the allocator as it was before it
    ramdisk,      \* the bytes of the RAM disk as the bootloader placed them
    ramdisk_len,  \* BootInfo::ramdisk_len
    rd_files,     \* history: the files the packager was given
    rd_fault,     \* history: what happened to the container between packager and kernel
    rd_sound,     \* outcome of assert_soundness
    rd_out,       \* the last value returned by get_file_count / get_file_slice
    resources,    \* the ApplicationResources prepared so far
    core_local,   \* CORE_LOCAL: per-core data
    cpu,          \* per core: position in run, registers, stacks
    results,      \* history: the runs that returned, with their exit codes
    apic,         \* the local APIC timer of a core and its per-core timer data
    pit,          \* PIT channel 2 and the outcome of the last pit call
    smp,          \* the cores during start-up: init_smp, ap_entry_fn, the barrier
    con,          \* the terminal, the serial log and the panic handler of each core
    mlock,        \* MEMORY's lock and the memory operation each core is in
    heap,         \* a buddy heap with its rescue callback, and the last request
    boot          \* BootInfo: the memory map and the RAM disk's place in memory

memVars == <<mem, user_tables, held, written, hist>>
rdVars == <<ramdisk, ramdisk_len, rd_files, rd_fault, rd_sound, rd_out>>
ldrVars == <<resources, core_local, cpu, results>>
timerVars == <<apic, pit>>
hwVars == <<timerVars, smp, con, mlock, heap, boot>>
notTimerVars == <<user_tables, held, written, hist, rdVars, ldrVars, smp, con,
                  mlock, heap, boot>>
vars == <<memVars, rdVars, ldrVars, hwVars>>

None == "None"

\* No frame (an Option<PhysFrame> that is None, an unused page-table entry).
NoFrame == 0 - 1
Unused == [frame |-> NoFrame, flags |-> {}]

-----------------------------------------------------------------------------
(* Bounds of the model *)

NFrames == 6
NSpaceFrames == 10
NCores == 1
MaxUserSpaces == 2
MaxHeld == 2

(* Program constants *)

KERNEL_L4_FIRST == 100
KERNEL_L4_END == 116
USER_L4_END == 1
BootL4Frame == 1000
BootL3Frame == 1001

Cores == 0 .. (NCores - 1)
Frames == 1 .. (NFrames + NSpaceFrames)

KERNEL_L4_PAGE_TABLE_RANGE == KERNEL_L4_FIRST .. (KERNEL_L4_END - 1)

KERNEL_HEAP_START == <<108, 0, 0, 0>>
KERNEL_AP_STACKS == <<109, 0, 0, 0>>
USER_STACK_START == <<0, 4, 0, 0>>
USER_HEAP_START == <<0, 8, 0, 0>>

\* v::KERNEL_START .. v::KERNEL_END and v::USER_START .. v::USER_END are
\* aligned to top-level entries, so membership is decided by the L4 index.
InKernelRange(page) == KERNEL_L4_FIRST <= page[1] /\ page[1] < KERNEL_L4_END
InUserRange(page) == 0 <= page[1] /\ page[1] < USER_L4_END

KernelPages == {KERNEL_HEAP_START, <<108, 0, 0, 1>>, <<109, 0, 0, 1>>}
UserPages == {USER_STACK_START}
ModelPages == KernelPages \cup UserPages

FlagChoices == {{"WRITABLE"}}
Values == {42, 666}

-----------------------------------------------------------------------------
(* BootInfoFrameAllocator *)

\* Op(v), with v computed once.
Then(v, Op(_)) == CHOOSE y \in {Op(x) : x \in {v}} : TRUE

Panic(m, msg) == [m EXCEPT !.panic = msg]

\* allocate_frame: unlinks the head of the free list; None when it is empty.
allocate_frame_missing_decrement(m) ==
    IF m.free_list = <<>>
    THEN [m |-> m, frame |-> NoFrame]
    ELSE [m |-> [m EXCEPT !.free_list = Tail(@),
                          !.handed_out = @ \cup {Head(m.free_list)}],
          frame |-> Head(m.free_list)]

allocate_frame(m) ==
    IF m.free_list = <<>>
    THEN [m |-> m, frame |-> NoFrame]
    ELSE [m |-> [m EXCEPT !.free_frames = @ - 1,
                          !.free_list = Tail(@),
                          !.handed_out = @ \cup {Head(m.free_list)}],
          frame |-> Head(m.free_list)]

\* deallocate_frame: writes a FreeNode into the frame and links it in as the head.
deallocate_frame(m, frame) ==
    [m EXCEPT !.ram = (frame :> "FreeNode") @@ @,
              !.free_list = <<frame>> \o @,
              !.free_frames = @ + 1,
              !.handed_out = @ \ {frame}]

get_memory_utilization(m) == <<m.total_frames - m.free_frames, m.total_frames>>

-----------------------------------------------------------------------------
(* Page tables (x86_64::structures::paging::OffsetPageTable) *)

ParentFlags == {"PRESENT", "WRITABLE", "USER_ACCESSIBLE"}

Entry(m, table, i) ==
    IF i \in DOMAIN m.tables[table] THEN m.tables[table][i] ELSE Unused

SetEntry(m, table, i, e) ==
    [m EXCEPT !.tables = (table :> ((i :> e) @@ m.tables[table])) @@ @]

ClearEntry(m, table, i) ==
    [m EXCEPT !.tables =
        (table :> [j \in DOMAIN m.tables[table] \ {i} |-> m.tables[table][j]]) @@ @]

\* The table the entry i of `table` points to, or NoFrame when the entry is unused.
NextTable(m, table, i) ==
    IF table = NoFrame THEN NoFrame ELSE Entry(m, table, i).frame

\* The leaf entry of `page` in the address space whose top-level table is l4.
Translate(m, l4, page) ==
    LET p3 == NextTable(m, l4, page[1])
        p2 == NextTable(m, p3, page[2])
        p1 == NextTable(m, p2, page[3])
    IN  IF p1 = NoFrame THEN Unused ELSE Entry(m, p1, page[4])

IsMapped(m, l4, page) == Translate(m, l4, page) # Unused

\* Whether the three intermediate tables of `page` exist in address space l4.
TablesExist(m, l4, page) ==
    NextTable(m, NextTable(m, NextTable(m, l4, page[1]), page[2]), page[3]) # NoFrame

\* How many of the three intermediate tables of `page` are missing in l4.
MissingTables(m, l4, page) ==
    IF NextTable(m, l4, page[1]) = NoFrame THEN 3
    ELSE IF NextTable(m, NextTable(m, l4, page[1]), page[2]) = NoFrame THEN 2
    ELSE IF ~TablesExist(m, l4, page) THEN 1
    ELSE 0

\* create_next_table: the table behind entry i, allocated and zeroed when the
\* entry is unused; an existing entry gets the missing parent flags.
create_next_table(m, table, i, insert_flags) ==
    Then(Entry(m, table, i), LAMBDA e :
    IF e = Unused
    THEN Then(allocate_frame(m), LAMBDA a :
             IF a.frame = NoFrame
             THEN [m |-> a.m, table |-> NoFrame]
             ELSE [m |-> [SetEntry(a.m, table, i,
                                   [frame |-> a.frame, flags |-> insert_flags])
                            EXCEPT !.tables = (a.frame :> <<>>) @@ @],
                   table |-> a.frame])
    ELSE [m |-> IF insert_flags # {} /\ ~(insert_flags \subseteq e.flags)
                THEN SetEntry(m, table, i, [e EXCEPT !.flags = @ \cup insert_flags])
                ELSE m,
          table |-> e.frame])

\* Mapper::map_to on the table l4.
map_to(m, l4, page, frame, flags) ==
    Then(create_next_table(m, l4, page[1], flags \cap ParentFlags), LAMBDA r3 :
        IF r3.table = NoFrame THEN [m |-> r3.m, err |-> "FrameAllocationFailed"]
        ELSE
    Then(create_next_table(r3.m, r3.table, page[2], flags \cap ParentFlags), LAMBDA r2 :
        IF r2.table = NoFrame THEN [m |-> r2.m, err |-> "FrameAllocationFailed"]
        ELSE
    Then(create_next_table(r2.m, r2.table, page[3], flags \cap ParentFlags), LAMBDA r1 :
        IF r1.table = NoFrame THEN [m |-> r1.m, err |-> "FrameAllocationFailed"]
        ELSE IF Entry(r1.m, r1.table, page[4]) # Unused
        THEN [m |-> r1.m, err |-> "PageAlreadyMapped"]
        ELSE [m |-> SetEntry(r1.m, r1.table, page[4], [frame |-> frame, flags |-> flags]),
              err |-> "ok"])))

\* Mapper::unmap on the table l4: no page table is ever freed.
unmap_page(m, l4, page) ==
    LET p3 == NextTable(m, l4, page[1])
        p2 == NextTable(m, p3, page[2])
        p1 == NextTable(m, p2, page[3])
    IN  IF p1 = NoFrame \/ Entry(m, p1, page[4]) = Unused
            \/ "PRESENT" \notin Entry(m, p1, page[4]).flags
        THEN [m |-> m, frame |-> NoFrame]
        ELSE [m |-> ClearEntry(m, p1, page[4]), frame |-> Entry(m, p1, page[4]).frame]


-----------------------------------------------------------------------------
(* memory.rs: free functions and Memory *)

\* create_new_l4_page_table: a zeroed frame that receives the kernel slice of
\* the table active on the calling core.
create_new_l4_page_table_copies_all(m, c) ==
    LET a == allocate_frame(m)
    IN  IF a.frame = NoFrame
        THEN [m |-> Panic(a.m, "Out of memory"), table |-> NoFrame]
        ELSE [m |-> [a.m EXCEPT !.tables = (a.frame :> m.tables[m.cr3[c]]) @@ @],
              table |-> a.frame]

create_new_l4_page_table(m, c) ==
    LET a == allocate_frame(m)
    IN  IF a.frame = NoFrame
        THEN [m |-> Panic(a.m, "Out of memory"), table |-> NoFrame]
        ELSE [m |-> [a.m EXCEPT !.tables =
                        (a.frame :> [i \in DOMAIN m.tables[m.cr3[c]]
                                          \cap KERNEL_L4_PAGE_TABLE_RANGE
                                     |-> m.tables[m.cr3[c]][i]]) @@ @],
              table |-> a.frame]

switch_l4_page_table(m, c, l4) == [m EXCEPT !.cr3[c] = l4]

create_user_page_table(m, c) == create_new_l4_page_table(m, c)

switch_to_user_page_table_stays(m, c, user_page_table) == m

switch_to_user_page_table(m, c, user_page_table) ==
    switch_l4_page_table(m, c, user_page_table)

switch_to_kernel_page_table(m, c) ==
    switch_l4_page_table(m, c, m.kernel_page_table)

\* map_frame: map_to on the active table; any error is fatal.
map_frame(m, c, page, flags, frame) ==
    Then(map_to(m, m.cr3[c], page, frame, flags), LAMBDA r :
        IF r.err = "ok" THEN r.m ELSE Panic(r.m, "Unable to map page"))

\* log_memory_utilization: one log line with get_memory_utilization.
log_memory_utilization(m, level) ==
    [m EXCEPT !.logged = Append(@, [level |-> level, text |-> "Memory utilization",
                                    util |-> get_memory_utilization(m)])]

\* The or_else closure of map_ram_kernel and map_ram_user: log::error!,
\* log_memory_utilization(Error), panic!("Out of memory").
out_of_memory_without_utilization(m) ==
    Panic([m EXCEPT !.logged = Append(@, [level |-> "Error", text |-> "Out of memory",
                                          util |-> <<>>])],
          "Out of memory")

out_of_memory(m) ==
    Panic(log_memory_utilization(
              [m EXCEPT !.logged = Append(@, [level |-> "Error", text |-> "Out of memory",
                                              util |-> <<>>])],
              "Error"),
          "Out of memory")

map_ram_kernel_as_user(m, c, page, flags) ==
    IF ~InKernelRange(page) THEN Panic(m, "Assertion failed")
    ELSE Then(allocate_frame(m), LAMBDA a :
             IF a.frame = NoFrame THEN out_of_memory(a.m)
             ELSE map_frame(a.m, c, page,
                            flags \cup {"USER_ACCESSIBLE", "PRESENT"}, a.frame))

map_ram_kernel(m, c, page, flags) ==
    IF ~InKernelRange(page) THEN Panic(m, "Assertion failed")
    ELSE Then(allocate_frame(m), LAMBDA a :
             IF a.frame = NoFrame THEN out_of_memory(a.m)
             ELSE map_frame(a.m, c, page, flags \cup {"PRESENT"}, a.frame))

map_ram_user(m, c, page, flags) ==
    IF ~InUserRange(page) THEN Panic(m, "Assertion failed")
    ELSE Then(allocate_frame(m), LAMBDA a :
             IF a.frame = NoFrame THEN out_of_memory(a.m)
             ELSE map_frame(a.m, c, page,
                            flags \cup {"USER_ACCESSIBLE", "PRESENT"}, a.frame))

\* change_flags: Mapper::update_flags on the active table replaces the flags of
\* the leaf entry; an unmapped page is fatal.
change_flags(m, c, page, flags) ==
    LET p1 == NextTable(m, NextTable(m, NextTable(m, m.cr3[c], page[1]), page[2]),
                        page[3])
    IN  IF p1 = NoFrame \/ Entry(m, p1, page[4]) = Unused
        THEN Panic(m, "Unable to change flags of page")
        ELSE SetEntry(m, p1, page[4], [Entry(m, p1, page[4]) EXCEPT !.flags = flags])

\* unmap: removes the mapping from the active table and returns the frame.
unmap(m, c, page) ==
    LET r == unmap_page(m, m.cr3[c], page)
    IN  IF r.frame = NoFrame
        THEN [m |-> Panic(r.m, "Unable to unmap page"), frame |-> NoFrame]
        ELSE r

unmap_ram_without_deallocate(m, c, page) == unmap(m, c, page).m

unmap_ram(m, c, page) ==
    LET r == unmap(m, c, page)
    IN  IF r.frame = NoFrame THEN r.m ELSE deallocate_frame(r.m, r.frame)

\* A store through a virtual address of the active address space.
write_word(m, c, page, v) ==
    [m EXCEPT !.ram = (Translate(m, m.cr3[c], page).frame :> v) @@ @]

\* A load through a virtual address of the address space l4.
read_through(m, l4, page) == m.ram[Translate(m, l4, page).frame]

\* A load through a virtual address of the active address space.
read_word(m, c, page) == read_through(m, m.cr3[c], page)

-----------------------------------------------------------------------------
(* The state after Memory::new() on a machine with `n` usable frames: the    *)
(* free list holds the usable frames in address order, and the bootloader's  *)
(* top-level table (in a frame of its own) is active on every core.          *)

RECURSIVE Upto(_)
Upto(n) == IF n = 0 THEN <<>> ELSE Append(Upto(n - 1), n)

MemoryNew(n) ==
    [free_list |-> Upto(n),
     total_frames |-> n,
     free_frames |-> n,
     kernel_page_table |-> BootL4Frame,
     tables |-> (BootL4Frame :> (KERNEL_L4_FIRST :>
                    [frame |-> BootL3Frame, flags |-> {"PRESENT", "WRITABLE"}]))
                @@ (BootL3Frame :> <<>>),
     ram |-> [f \in 1 .. n |-> "FreeNode"],
     cr3 |-> [c \in Cores |-> BootL4Frame],
     panic |-> None,
     logged |-> <<>>,
     handed_out |-> {}]

NoHist == [op |-> None]

\* No bit of the RAM disk was flipped.
NoFault == [pos |-> 0, bit |-> 0]

\* The RAM disk and the loader while a specification does not use them.
RamDiskUnused ==
    /\ ramdisk = <<>>
    /\ ramdisk_len = 0
    /\ rd_files = <<>>
    /\ rd_fault = NoFault
    /\ rd_sound = None
    /\ rd_out = NoHist

LoaderUnused ==
    /\ resources = <<>>
    /\ core_local = <<>>
    /\ cpu = <<>>
    /\ results = <<>>

\* The timers while a specification does not use them.
TimersUnused ==
    /\ apic = <<>>
    /\ pit = <<>>

\* The devices and the cores' start-up while a specification does not use them.
SmpUnused == smp = <<>>

ConUnused == con = <<>>

\* MEMORY's lock while a specification takes each memory operation as a whole.
MemLockUnused == mlock = <<>>

\* The heaps' growth and the boot information while a specification starts
\* from a heap and a frame allocator that are already built.
HeapUnused == heap = <<>>
BootUnused == boot = <<>>

HwUnused ==
    TimersUnused /\ SmpUnused /\ ConUnused /\ MemLockUnused /\ HeapUnused /\ BootUnused

MemoryInit(n) ==
    /\ mem = MemoryNew(n)
    /\ user_tables = {}
    /\ held = {}
    /\ written = <<>>
    /\ hist = NoHist

Init == MemoryInit(NFrames) /\ RamDiskUnused /\ LoaderUnused /\ HwUnused

Running == mem.panic = None

\* The history of values written through user pages, without the pages of
\* the set `gone` (unmapped, so no longer readable).
Forget(w, gone) == [k \in DOMAIN w \ gone |-> w[k]]

AllocateFrame ==
    /\ Running
    /\ Cardinality(held) < MaxHeld
    /\ LET a == allocate_frame(mem)
       IN  /\ mem' = a.m
           /\ held' = IF a.frame = NoFrame THEN held ELSE held \cup {a.frame}
    /\ hist' = NoHist
    /\ UNCHANGED <<user_tables, written, rdVars, ldrVars, hwVars>>

DeallocateFrame(f) ==
    /\ Running
    /\ f \in held
    /\ mem' = deallocate_frame(mem, f)
    /\ held' = held \ {f}
    /\ hist' = [op |-> "deallocate_frame"]
    /\ UNCHANGED <<user_tables, written, rdVars, ldrVars, hwVars>>

CreateUserPageTable(c) ==
    /\ Running
    /\ Cardinality(user_tables) < MaxUserSpaces
    /\ LET r == create_user_page_table(mem, c)
       IN  /\ mem' = r.m
           /\ user_tables' = IF r.table = NoFrame THEN user_tables
                             ELSE user_tables \cup {r.table}
    /\ hist' = NoHist
    /\ UNCHANGED <<held, written, rdVars, ldrVars, hwVars>>

SwitchToUserPageTable(c, t) ==
    /\ Running
    /\ t \in user_tables
    /\ mem.cr3[c] # t
    /\ mem' = switch_to_user_page_table(mem, c, t)
    /\ hist' = NoHist
    /\ UNCHANGED <<user_tables, held, written, rdVars, ldrVars, hwVars>>

SwitchToKernelPageTable(c) ==
    /\ Running
    /\ mem.cr3[c] # mem.kernel_page_table
    /\ mem' = switch_to_kernel_page_table(mem, c)
    /\ hist' = NoHist
    /\ UNCHANGED <<user_tables, held, written, rdVars, ldrVars, hwVars>>

MapRamKernel(c, page, flags) ==
    /\ Running
    /\ mem' = map_ram_kernel(mem, c, page, flags)
    /\ hist' = [op |-> "map_ram_kernel", core |-> c, page |-> page,
                free_list |-> mem.free_list, free_frames |-> mem.free_frames,
                tables_exist |-> TablesExist(mem, mem.cr3[c], page),
                missing |-> MissingTables(mem, mem.cr3[c], page),
                was_mapped |-> IsMapped(mem, mem.cr3[c], page)]
    /\ UNCHANGED <<user_tables, held, written, rdVars, ldrVars, hwVars>>

MapRamUser(c, page, flags) ==
    /\ Running
    /\ mem' = map_ram_user(mem, c, page, flags)
    /\ hist' = NoHist
    /\ UNCHANGED <<user_tables, held, written, rdVars, ldrVars, hwVars>>

UnmapRam(c, page) ==
    /\ Running
    /\ mem' = unmap_ram(mem, c, page)
    /\ written' = Forget(written, {<<mem.cr3[c], page>>})
    /\ hist' = IF hist.op = "map_ram_kernel" /\ hist.core = c /\ hist.page = page
               THEN [hist EXCEPT !.op = "map_ram_kernel;unmap_ram"]
               ELSE NoHist
    /\ UNCHANGED <<user_tables, held, rdVars, ldrVars, hwVars>>

WriteUser(c, page, v) ==
    /\ Running
    /\ page \in UserPages
    /\ IsMapped(mem, mem.cr3[c], page)
    /\ mem' = write_word(mem, c, page, v)
    /\ written' = (<<mem.cr3[c], page>> :> v) @@ written
    /\ hist' = NoHist
    /\ UNCHANGED <<user_tables, held, rdVars, ldrVars, hwVars>>

\* The frame allocator and the kernel range of the kernel address space.
Next ==
    \/ AllocateFrame
    \/ \E f \in Frames : DeallocateFrame(f)
    \/ \E c \in Cores, p \in ModelPages, fl \in FlagChoices : MapRamKernel(c, p, fl)
    \/ \E c \in Cores, p \in KernelPages : UnmapRam(c, p)

Spec == Init /\ [][Next]_vars

\* Address spaces: creation, switching, kernel-range and user-range mappings.
NextSpaces ==
    \/ \E c \in Cores : CreateUserPageTable(c)
    \/ \E c \in Cores, t \in Frames : SwitchToUserPageTable(c, t)
    \/ \E c \in Cores : SwitchToKernelPageTable(c)
    \/ \E c \in Cores : MapRamKernel(c, KERNEL_HEAP_START, {"WRITABLE"})
    \/ \E c \in Cores, p \in UserPages : MapRamUser(c, p, {"WRITABLE"})
    \/ \E c \in Cores, p \in UserPages : UnmapRam(c, p)
    \/ \E c \in Cores, p \in UserPages, v \in Values : WriteUser(c, p, v)

InitSpaces == MemoryInit(NSpaceFrames) /\ RamDiskUnused /\ LoaderUnused /\ HwUnused

SpecSpaces == InitSpaces /\ [][NextSpaces]_vars

-----------------------------------------------------------------------------
(* The RAM-disk container: bootimage/src/main.rs (Image) builds it, and      *)
(* kernel/src/ram_disk.rs reads it.  A byte is a number in 0 .. 255.         *)

MaxFiles == 2

\* The file contents the packager is given.
FileContents == {<<>>, <<65>>, <<255, 0>>}

RECURSIVE FileListsOfLen(_)
FileListsOfLen(n) ==
    IF n = 0 THEN {<<>>}
    ELSE {Append(l, f) : l \in FileListsOfLen(n - 1), f \in FileContents}

FileLists == UNION {FileListsOfLen(n) : n \in 0 .. MaxFiles}

Pow2(k) == CASE k = 0 -> 1 [] k = 1 -> 2 [] k = 2 -> 4 [] k = 3 -> 8
             [] k = 4 -> 16 [] k = 5 -> 32 [] k = 6 -> 64 [] k = 7 -> 128

\* u64::to_le_bytes of a number below 2^24.
to_le_bytes(n) ==
    <<n % 256, (n \div 256) % 256, (n \div 65536) % 256, 0, 0, 0, 0, 0>>

\* A u64 too large for the model: every such value is at least 2^24.
Huge == 256 * 256 * 256

\* The u64 at index k of the bytes seen as a slice of u64 (little-endian).
U64At(bytes, k) ==
    LET b == SubSeq(bytes, 8 * k + 1, 8 * k + 8)
    IN  IF \E j \in 4 .. 8 : b[j] # 0 THEN Huge
        ELSE b[1] + 256 * b[2] + 65536 * b[3]

(* CRC-32 (pruefung::crc::crc32::Crc32: reflected polynomial EDB88320,       *)
(* initial value and final xor FFFFFFFF).  The 32-bit register is the set of *)
(* its bit positions that are 1.                                             *)
CrcPoly == {31, 30, 29, 27, 26, 24, 23, 21, 20, 19, 15, 9, 8, 5}
AllOnes == 0 .. 31
Xor(a, b) == {k \in AllOnes : (k \in a) # (k \in b)}
BitsOf(byte) == {k \in 0 .. 7 : (byte \div Pow2(k)) % 2 = 1}
ShiftRight(r) == {k \in AllOnes : (k + 1) \in r}

\* One bit of the input: shift right, and xor the polynomial in if a 1 fell out.
CrcRound[r \in SUBSET AllOnes] ==
    IF 0 \in r THEN Xor(ShiftRight(r), CrcPoly) ELSE ShiftRight(r)

\* One input byte: xor it into the low bits, then eight rounds.
CrcByte[r \in SUBSET AllOnes, byte \in 0 .. 255] ==
    CrcRound[CrcRound[CrcRound[CrcRound[CrcRound[CrcRound[CrcRound[CrcRound[
        Xor(r, BitsOf(byte))]]]]]]]]

\* The register after Hasher::write of the bytes to a hasher whose register
\* is r.  A buffer is written in two halves: writing a buffer is writing its
\* front and then its back.
CrcWrite[r0 \in SUBSET AllOnes, bytes \in Seq(0 .. 255)] ==
    LET write[r \in SUBSET AllOnes, lo \in 1 .. Len(bytes), hi \in 1 .. Len(bytes)] ==
            IF lo = hi THEN CrcByte[r, bytes[lo]]
            ELSE write[write[r, lo, (lo + hi) \div 2], (lo + hi) \div 2 + 1, hi]
    IN  IF Len(bytes) = 0 THEN r0 ELSE write[r0, 1, Len(bytes)]

ByteOfBits(r, lo) ==
    LET v[k \in 0 .. 8] ==
            IF k = 0 THEN 0
            ELSE v[k - 1] + (IF (lo + k - 1) \in r THEN Pow2(k - 1) ELSE 0)
    IN  v[8]

\* Hasher::finish() as a u64, in little-endian bytes.
Crc32LeBytes(bytes) ==
    LET r == Xor(CrcWrite[AllOnes, bytes], AllOnes)
    IN  <<ByteOfBits(r, 0), ByteOfBits(r, 8), ByteOfBits(r, 16), ByteOfBits(r, 24),
          0, 0, 0, 0>>

RECURSIVE Concat(_)
Concat(seqs) == IF Len(seqs) = 0 THEN <<>> ELSE Head(seqs) \o Concat(Tail(seqs))

\* Image::add_string / add_file for each file: region_ends after every file.
RECURSIVE RegionEnds(_)
RegionEnds(files) ==
    IF files = <<>> THEN <<>>
    ELSE LET front == SubSeq(files, 1, Len(files) - 1)
         IN  Append(RegionEnds(front), Len(Concat(files)))

\* The region ends as a byte buffer (bytemuck::cast_slice of the u64 slice).
RECURSIVE LeBytesOfAll(_)
LeBytesOfAll(ns) ==
    IF Len(ns) = 0 THEN <<>> ELSE to_le_bytes(Head(ns)) \o LeBytesOfAll(Tail(ns))

\* Image::build: length, checksum, file count and region ends, payload.
ImageBuild(files) ==
    LET region_ends == <<Len(files)>> \o RegionEnds(files)
        region_lengths_buf ==
            LeBytesOfAll(region_ends)
        buffer == Concat(files)
        checksum == Crc32LeBytes(region_lengths_buf \o buffer)
    IN  to_le_bytes(Len(region_lengths_buf) + Len(buffer) + 8 + 8)
            \o checksum \o region_lengths_buf \o buffer

Panicked == "panic"

\* get_file_count: Panicked where the index into the u64 slice fails.
get_file_count(rd, len) == IF len \div 8 < 3 THEN Panicked ELSE U64At(rd, 2)

\* get_file_slice with the payload taken to start after a header of three
\* words, without the file_count words of the region ends.
get_file_slice_fixed_header(rd, len, index) ==
    LET u64_len == len \div 8
        file_count == U64At(rd, 2)
    IN  IF u64_len < 3 \/ ~(index < file_count) \/ ~(3 + index < u64_len)
        THEN Panicked
        ELSE
    LET raw_file_start == IF index = 0 THEN 0 ELSE U64At(rd, 3 + index - 1)
        file_end == U64At(rd, 3 + index)
        file_start == raw_file_start + 3 * 8
    IN  IF file_end < raw_file_start
           \/ file_start + (file_end - raw_file_start) > len
        THEN Panicked
        ELSE SubSeq(rd, file_start + 1, file_start + (file_end - raw_file_start))

\* get_file_slice: Panicked where an ass!, an index or a slice range fails.
get_file_slice(rd, len, index) ==
    LET u64_len == len \div 8
        file_count == U64At(rd, 2)
    IN  IF u64_len < 3 \/ ~(index < file_count) \/ ~(3 + index < u64_len)
        THEN Panicked
        ELSE
    LET raw_file_start == IF index = 0 THEN 0 ELSE U64At(rd, 3 + index - 1)
        file_end == U64At(rd, 3 + index)
        file_start == raw_file_start + (file_count + 3) * 8
    IN  IF file_end < raw_file_start
           \/ file_start + (file_end - raw_file_start) > len
        THEN Panicked
        ELSE SubSeq(rd, file_start + 1, file_start + (file_end - raw_file_start))

\* assert_soundness: "ok", or the assertion that failed.
assert_soundness(rd, len) ==
    IF ~(len >= 8 + 8 + 8 + 8 + 1) THEN "ramdisk_len too small"
    ELSE IF SubSeq(rd, 1, 8) # to_le_bytes(len) THEN "length mismatch"
    ELSE IF SubSeq(rd, 9, 16) # Crc32LeBytes(SubSeq(rd, 17, len))
    THEN "checksum mismatch"
    ELSE IF ~(U64At(rd, 2) <= (len - 8 - 8 - 8) \div 9) THEN "file count too large"
    ELSE "ok"

\* The bits of a byte that a fault may flip.
FlipBits == {0, 7}

FlipBit(byte, k) ==
    IF k \in BitsOf(byte) THEN byte - Pow2(k) ELSE byte + Pow2(k)

\* The packager builds the container of the files, and the bootloader loads
\* it and reports its length in the boot info.
BuildImage(files) ==
    /\ ramdisk = <<>>
    /\ ramdisk' = ImageBuild(files)
    /\ ramdisk_len' = Len(ramdisk')
    /\ rd_files' = files
    /\ UNCHANGED <<rd_fault, rd_sound, rd_out, memVars, ldrVars, hwVars>>

\* One bit of the loaded container is flipped before the kernel reads it.
FlipByte(pos, bit) ==
    /\ ramdisk # <<>>
    /\ rd_fault = NoFault
    /\ rd_sound = None
    /\ rd_out = NoHist
    /\ pos \in 1 .. Len(ramdisk)
    /\ ramdisk' = [ramdisk EXCEPT ![pos] = FlipBit(@, bit)]
    /\ rd_fault' = [pos |-> pos, bit |-> bit]
    /\ UNCHANGED <<ramdisk_len, rd_files, rd_sound, rd_out, memVars, ldrVars, hwVars>>

AssertSoundness ==
    /\ ramdisk # <<>>
    /\ rd_sound = None
    /\ rd_sound' = assert_soundness(ramdisk, ramdisk_len)
    /\ UNCHANGED <<ramdisk, ramdisk_len, rd_files, rd_fault, rd_out, memVars,
                   ldrVars, hwVars>>

GetFileCount ==
    /\ ramdisk # <<>>
    /\ rd_out' = [op |-> "get_file_count",
                  value |-> get_file_count(ramdisk, ramdisk_len)]
    /\ UNCHANGED <<ramdisk, ramdisk_len, rd_files, rd_fault, rd_sound, memVars,
                   ldrVars, hwVars>>

GetFileSlice(index) ==
    /\ ramdisk # <<>>
    /\ rd_out' = [op |-> "get_file_slice", index |-> index,
                  value |-> get_file_slice(ramdisk, ramdisk_len, index)]
    /\ UNCHANGED <<ramdisk, ramdisk_len, rd_files, rd_fault, rd_sound, memVars,
                   ldrVars, hwVars>>

NextRamDisk ==
    \/ \E files \in FileLists : BuildImage(files)
    \/ \E pos \in 1 .. Len(ramdisk), bit \in FlipBits : FlipByte(pos, bit)
    \/ AssertSoundness
    \/ GetFileCount
    \/ \E index \in 0 .. MaxFiles : GetFileSlice(index)

SpecRamDisk == Init /\ [][NextRamDisk]_vars

-----------------------------------------------------------------------------
(* loader.rs: prepare_application.  A program is the ELF of one of the user  *)
(* programs; its writable PT_LOAD segment is one page, whose word is the      *)
(* program's static COUNTER.                                                  *)

NLoaderFrames == 24
StackPages == 1
MaxRuns == 3
MaxCallDepth == 2

\* user_app/src/main.rs, user_app/src/test.rs, and a program that calls,
\* returns and aborts as it likes.
Programs == {"main", "test", "nested"}

\* The page of the writable segment (p_vaddr of the ELF).
SegmentPage == <<0, 0, 1, 0>>

\* The i-th page above USER_STACK_START; page 0 is the guard page.
StackPage(i) == <<0, 4, 0, i>>

\* The page that holds new_rsp = USER_STACK_START + USER_STACK_SIZE - 1024.
TopStackPage == StackPage(StackPages)

\* Page::range_inclusive over the pages of a segment of `pages` pages that
\* starts at the page-aligned address of `page`: for p_memsz = 0 the end,
\* region_start + size - 1, lies in the page before, and the range is empty.
PageRange(page, pages) ==
    [i \in 1 .. pages |-> <<page[1], page[2], page[3], page[4] + (i - 1)>>]

\* The three loops of map_segment over page_range.
RECURSIVE map_pages(_, _, _, _)
map_pages(m, c, page_range, flags) ==
    IF page_range = <<>> \/ m.panic # None THEN m
    ELSE Then(map_ram_user(m, c, Head(page_range), flags \cup {"WRITABLE"}),
              LAMBDA m1 : map_pages(m1, c, Tail(page_range), flags))

RECURSIVE fill_pages(_, _, _, _)
fill_pages(m, c, page_range, data) ==
    IF page_range = <<>> \/ m.panic # None THEN m
    ELSE Then(write_word(m, c, Head(page_range), data),
              LAMBDA m1 : fill_pages(m1, c, Tail(page_range), data))

\* The flags of the second loop of map_segment.
final_flags_keeps_writable(flags) ==
    flags \cup {"WRITABLE", "USER_ACCESSIBLE", "PRESENT"}

final_flags(flags) == flags \cup {"USER_ACCESSIBLE", "PRESENT"}

RECURSIVE flag_pages(_, _, _, _)
flag_pages(m, c, page_range, flags) ==
    IF page_range = <<>> \/ m.panic # None THEN m
    ELSE Then(change_flags(m, c, Head(page_range), final_flags(flags)),
              LAMBDA m1 : flag_pages(m1, c, Tail(page_range), flags))

\* map_segment: every page is mapped writable, the segment is zero-filled and
\* loaded through the active address space, and then every page is given its
\* final flags.
map_segment(m, c, page, pages, flags, data) ==
    Then(map_pages(m, c, PageRange(page, pages), flags), LAMBDA m1 :
    Then(fill_pages(m1, c, PageRange(page, pages), data), LAMBDA m2 :
        flag_pages(m2, c, PageRange(page, pages), flags)))

\* The page-table flags load derives from p_flags.
segment_flags(p_flags) ==
    (IF "PF_X" \notin p_flags \/ "PF_W" \in p_flags THEN {"NO_EXECUTE"} ELSE {})
    \cup (IF "PF_W" \in p_flags THEN {"WRITABLE"} ELSE {})

\* load: every PT_LOAD segment of the file is mapped, in the order of the
\* program headers; a segment that can be neither read nor executed is fatal.
RECURSIVE load_segments(_, _, _)
load_segments(m, c, segments) ==
    IF segments = <<>> \/ m.panic # None THEN m
    ELSE LET segment == Head(segments)
         IN  IF "PF_R" \notin segment.p_flags /\ "PF_X" \notin segment.p_flags
             THEN Panic(m, "Assertion failed")
             ELSE Then(map_segment(m, c, segment.p_vaddr, segment.pages,
                                   segment_flags(segment.p_flags), 0),
                       LAMBDA m1 : load_segments(m1, c, Tail(segments)))

load(m, c, file) == load_segments(m, c, file.segments)

\* The ELF of a user program: the entry point stands for its code, and the
\* one segment the model follows is the writable one.
ElfOf(program) ==
    [e_entry |-> program,
     segments |-> <<[p_vaddr |-> SegmentPage, pages |-> 1,
                     p_flags |-> {"PF_R", "PF_W"}]>>]

\* allocate_stack: every page of the stack but the guard page.
RECURSIVE allocate_stack_from(_, _, _)
allocate_stack_from(m, c, i) ==
    IF i > StackPages \/ m.panic # None THEN m
    ELSE Then(map_ram_user(m, c, StackPage(i), {"WRITABLE", "NO_EXECUTE"}),
              LAMBDA m1 : allocate_stack_from(m1, c, i + 1))

allocate_stack(m, c) == allocate_stack_from(m, c, 1)

\* create_user_heap: an empty heap; its rescue function maps pages on demand.
create_user_heap == [pages |-> 0, live |-> 0]

\* prepare_application on core c: the memory afterwards and the resources.
prepare_application(m, c, file) ==
    Then(create_user_page_table(m, c), LAMBDA t :
        IF t.m.panic # None THEN [m |-> t.m, resources |-> None]
        ELSE
    Then(switch_to_user_page_table(t.m, c, t.table), LAMBDA m0 :
    Then(load(m0, c, file), LAMBDA m1 :
    Then(IF m1.panic # None THEN m1 ELSE allocate_stack(m1, c), LAMBDA m2 :
        IF m2.panic # None THEN [m |-> m2, resources |-> None]
        ELSE [m |-> switch_to_kernel_page_table(m2, c),
              resources |-> [l4_page_table |-> t.table,
                             entry_point_virt_addr |-> file.e_entry,
                             heap |-> create_user_heap,
                             \* history: the segments load has mapped
                             segments |-> file.segments]]))))

-----------------------------------------------------------------------------
(* loader.rs: run, switch_stack_and_execute, save_instruction_pointer and    *)
(* abort, at the level of the registers and the two stacks.  A stack pointer *)
(* is the stack it points into and the number of words pushed on that stack; *)
(* code addresses are the names of the places they point to.                 *)

CallSites == {0, 1}
ExitCodes == {0, 42}

\* Option<RunningApplicationCLD>: None, and Some as switch_stack_and_execute
\* installs it (abort_addr: 0, saved_stack_pointer: 0).
NoneRecord == [is_some |-> FALSE]
NullAddr == [of |-> "null"]
NullSp == [stack |-> "null", depth |-> 0]
SomeRecord(r) ==
    [is_some |-> TRUE, application_resources |-> r, abort_addr |-> NullAddr,
     saved_stack_pointer |-> NullSp]

\* Machine words: numbers, code addresses, what the kernel or the user program
\* left in a register, and the address of a saved_stack_pointer field.
Num(n) == [of |-> "num", n |-> n]
Code(at) == [of |-> "code", at |-> at]
KernelValue(reg) == [of |-> "kernel", reg |-> reg]
UserValue == [of |-> "user"]
SavedStackPointerPointer(c) == [of |-> "saved_stack_pointer", core |-> c]

\* new_rsp: the top of the user stack.
new_rsp == [stack |-> "user", depth |-> 0]

\* Where the core is when it runs no program.
CpuIdle ==
    [pc |-> "idle",
     rsp |-> [stack |-> "kernel", depth |-> 0],
     kstack |-> <<>>,
     ustack |-> <<>>,
     rax |-> Num(0), rdx |-> KernelValue("rdx"), r13 |-> Num(0),
     rbx |-> KernelValue("rbx"), rbp |-> KernelValue("rbp"),
     r14 |-> KernelValue("r14"), r15 |-> KernelValue("r15"),
     resources |-> 0, site |-> 0,
     upc |-> [at |-> "none"],
     via |-> "none", exit_code |-> 0, frames |-> 0, runs |-> 0]

\* push and pop on the stack rsp points into; a popped word stays in memory.
StackOf(k) == IF k.rsp.stack = "kernel" THEN k.kstack ELSE k.ustack

Store(stack, d, w) ==
    [i \in 1 .. (IF d > Len(stack) THEN d ELSE Len(stack)) |->
        IF i = d THEN w ELSE stack[i]]

Push(k, w) ==
    LET d == k.rsp.depth + 1
    IN  IF k.rsp.stack = "kernel"
        THEN [k EXCEPT !.rsp.depth = d, !.kstack = Store(k.kstack, d, w)]
        ELSE [k EXCEPT !.rsp.depth = d, !.ustack = Store(k.ustack, d, w)]

\* The words ws pushed one after the other.
PushAll(k, ws) ==
    LET d == k.rsp.depth
        stack == StackOf(k)
        n == IF d + Len(ws) > Len(stack) THEN d + Len(ws) ELSE Len(stack)
        pushed == [i \in 1 .. n |-> IF i > d /\ i <= d + Len(ws) THEN ws[i - d]
                                    ELSE stack[i]]
    IN  IF k.rsp.stack = "kernel"
        THEN [k EXCEPT !.rsp.depth = d + Len(ws), !.kstack = pushed]
        ELSE [k EXCEPT !.rsp.depth = d + Len(ws), !.ustack = pushed]

Top(k) == StackOf(k)[k.rsp.depth]

Pop(k) == [k EXCEPT !.rsp.depth = @ - 1]

\* The i-th word from the top of the stack rsp points into; something
\* undefined where no word was ever pushed.
WordAt(k, i) ==
    IF (k.rsp.depth - i) \in 1 .. Len(StackOf(k)) THEN StackOf(k)[k.rsp.depth - i]
    ELSE UserValue

\* The stack pages are mapped writable in the address space active on c.
UserStackMapped(m, c) ==
    /\ IsMapped(m, m.cr3[c], TopStackPage)
    /\ "WRITABLE" \in Translate(m, m.cr3[c], TopStackPage).flags

\* The top-level table run switches to.
run_page_table_of_first(rs, r) == rs[1].l4_page_table

run_page_table(rs, r) == rs[r].l4_page_table

\* run up to the call of switch_stack_and_execute, from a call site whose
\* frames take `site` words of the kernel stack.
run_enter(k, r, site) ==
    LET caller == [k EXCEPT !.kstack = [i \in 1 .. site |-> KernelValue("caller")],
                            !.rsp = [stack |-> "kernel", depth |-> site],
                            !.resources = r, !.site = site,
                            !.via = "none", !.exit_code = 0, !.frames = 0,
                            !.runs = @ + 1]
    IN  [PushAll(caller, <<Code("return to caller"), Code("run_tail")>>)
            EXCEPT !.pc = "switch_stack_and_execute"]

\* switch_stack_and_execute up to the call of save_instruction_pointer.
switch_stack_and_execute(k, c) ==
    LET k4 == PushAll(k, <<k.rbx, k.rbp, k.r14, k.r15>>)
        user == [k4 EXCEPT !.rsp = new_rsp, !.rbp = UserValue,
                           !.rdx = SavedStackPointerPointer(c)]
    IN  [cpu |-> [Push(user, Code("reentry")) EXCEPT !.pc = "save_instruction_pointer"],
         cld |-> [SomeRecord(k.resources) EXCEPT !.saved_stack_pointer = k4.rsp]]

\* save_instruction_pointer up to the call of the entry point.
save_instruction_pointer(k, cld) ==
    LET k1 == [k EXCEPT !.rax = Top(k), !.r15 = k.rdx]
    IN  [cpu |-> [Push(k1, Code("after call rsi")) EXCEPT
                     !.pc = "user",
                     !.upc = [at |-> "entry", frames |-> 0, count |-> 0, ret |-> 0,
                              saved_r15 |-> k1.r15]],
         cld |-> [cld EXCEPT !.abort_addr = k1.rax]]

\* The word rsp points at.
Word(k) == WordAt(k, 0)

\* jmp: continue at the word, if it is a code address at all.
Jump(k, w) == [k EXCEPT !.pc = IF w.of = "code" THEN w.at ELSE "crashed"]

\* ret: continue at the popped word.
Ret(k) == Jump(Pop(k), Word(k))

\* Code of the user program runs: it may use every register.
Clobber(k) ==
    [k EXCEPT !.rdx = UserValue, !.rbx = UserValue, !.rbp = UserValue,
              !.r14 = UserValue, !.r15 = UserValue]

\* The entry point returns `value`: the callee-saved registers are the ones
\* it was called with, and it returns into save_instruction_pointer.
entry_returns(k, value) ==
    Ret([k EXCEPT !.rax = Num(value), !.r15 = k.upc.saved_r15, !.rbx = KernelValue("rbx"),
                  !.r14 = KernelValue("r14"), !.upc = [at |-> "none"],
                  !.via = "return", !.exit_code = value,
                  !.frames = k.upc.frames])

\* save_instruction_pointer after the call: mov rdx, r15; ret.
save_instruction_pointer_returns(k) == Ret([k EXCEPT !.rdx = k.r15])

\* abort: jumps to abort_addr with the exit code in rax and the pointer to the
\* saved stack pointer in rdx.
abort_with_zero(k, cld, c, exit_code) ==
    Jump([k EXCEPT !.rax = Num(0), !.rdx = SavedStackPointerPointer(c),
                   !.upc = [at |-> "none"],
                   !.via = "abort", !.exit_code = exit_code,
                   !.frames = k.upc.frames],
         cld.abort_addr)

abort(k, cld, c, exit_code) ==
    Jump([k EXCEPT !.rax = Num(exit_code), !.rdx = SavedStackPointerPointer(c),
                   !.upc = [at |-> "none"],
                   !.via = "abort", !.exit_code = exit_code,
                   !.frames = k.upc.frames],
         cld.abort_addr)

\* The stack pointer that rdx points to.
Deref(cl, ptr) ==
    IF ptr.of = "saved_stack_pointer"
       /\ cl[ptr.core].running_application_data.is_some
    THEN cl[ptr.core].running_application_data.saved_stack_pointer
    ELSE NullSp

\* The end of the asm block of switch_stack_and_execute, where the return
\* from save_instruction_pointer and the jump of abort arrive.
reentry_pops_three(k, cl) ==
    LET k0 == [k EXCEPT !.r13 = k.rax, !.rsp = Deref(cl, k.rdx)]
    IN  [k0 EXCEPT !.r15 = WordAt(k0, 0), !.r14 = WordAt(k0, 1),
                   !.rbp = WordAt(k0, 2), !.rsp.depth = @ - 3,
                   !.pc = "switch_stack_and_execute returns"]

reentry(k, cl) ==
    LET k0 == [k EXCEPT !.r13 = k.rax, !.rsp = Deref(cl, k.rdx)]
    IN  [k0 EXCEPT !.r15 = WordAt(k0, 0), !.r14 = WordAt(k0, 1),
                   !.rbp = WordAt(k0, 2), !.rbx = WordAt(k0, 3),
                   !.rsp.depth = @ - 4,
                   !.pc = "switch_stack_and_execute returns"]

\* switch_stack_and_execute returns ret (r13) to run.
switch_stack_and_execute_returns(k) == Ret([k EXCEPT !.rax = k.r13])

\* run after switch_stack_and_execute: the record and the address space.
run_tail_keeps_record(m, cl, c) ==
    [m |-> switch_to_kernel_page_table(m, c), cl |-> cl]

run_tail(m, cl, c) ==
    [m |-> switch_to_kernel_page_table(m, c),
     cl |-> [cl EXCEPT ![c].running_application_data = NoneRecord]]

\* user_functions::alloc and dealloc: the heap of the resources the record of
\* the calling core points to; an empty heap is rescued with a mapped page.
user_alloc(m, rs, cl, c) ==
    LET r == cl[c].running_application_data.application_resources
        grown == rs[r].heap.pages = 0
    IN  [m |-> IF grown
               THEN map_ram_user(m, c, USER_HEAP_START,
                                 {"PRESENT", "WRITABLE", "NO_EXECUTE"})
               ELSE m,
         rs |-> [rs EXCEPT ![r].heap.pages = IF grown THEN 1 ELSE @,
                           ![r].heap.live = @ + 1],
         heap |-> r]

user_dealloc(m, rs, cl, c) ==
    LET r == cl[c].running_application_data.application_resources
    IN  [m |-> m, rs |-> [rs EXCEPT ![r].heap.live = @ - 1], heap |-> r]

-----------------------------------------------------------------------------
(* The loader's steps.  A core either is idle in the kernel or is somewhere  *)
(* in run.                                                                    *)

ProgramOf(c) == resources[cpu[c].resources].entry_point_virt_addr

\* No core runs the resources r (run takes them by exclusive reference).
NotRunning(r) == \A c \in Cores : cpu[c].pc = "idle" \/ cpu[c].resources # r

RunsStarted == Len(results) + Cardinality({c \in Cores : cpu[c].pc # "idle"})

LoaderStep(c, k) ==
    /\ cpu' = [cpu EXCEPT ![c] = k]
    /\ hist' = NoHist
    /\ UNCHANGED <<mem, resources, core_local, results, user_tables, held,
                   written, rdVars, hwVars>>

\* A store to the user stack of a program whose stack is not mapped faults.
UserStep(c, k) ==
    IF UserStackMapped(mem, c)
    THEN LoaderStep(c, k)
    ELSE /\ mem' = Panic(mem, "page fault")
         /\ hist' = NoHist
         /\ UNCHANGED <<cpu, resources, core_local, results, user_tables, held,
                        written, rdVars, hwVars>>

PrepareApplication(c, file) ==
    /\ Running
    /\ cpu[c].pc = "idle"
    /\ Len(resources) < MaxUserSpaces
    /\ LET p == prepare_application(mem, c, file)
       IN  /\ mem' = p.m
           /\ resources' = IF p.m.panic # None THEN resources
                           ELSE Append(resources, p.resources)
    /\ hist' = NoHist
    /\ UNCHANGED <<cpu, core_local, results, user_tables, held, written, rdVars, hwVars>>

Run(c, r, site) ==
    /\ Running
    /\ cpu[c].pc = "idle"
    /\ r \in 1 .. Len(resources)
    /\ NotRunning(r)
    /\ RunsStarted < MaxRuns
    /\ mem' = switch_to_user_page_table(mem, c, run_page_table(resources, r))
    /\ cpu' = [cpu EXCEPT ![c] = run_enter(cpu[c], r, site)]
    /\ hist' = NoHist
    /\ UNCHANGED <<resources, core_local, results, user_tables, held, written,
                   rdVars, hwVars>>

SwitchStackAndExecute(c) ==
    /\ Running
    /\ cpu[c].pc = "switch_stack_and_execute"
    /\ LET x == switch_stack_and_execute(cpu[c], c)
       IN  IF UserStackMapped(mem, c)
           THEN /\ cpu' = [cpu EXCEPT ![c] = x.cpu]
                /\ core_local' =
                       [core_local EXCEPT ![c].running_application_data = x.cld]
                /\ mem' = mem
           ELSE /\ mem' = Panic(mem, "page fault")
                /\ core_local' =
                       [core_local EXCEPT ![c].running_application_data = x.cld]
                /\ cpu' = cpu
    /\ hist' = NoHist
    /\ UNCHANGED <<resources, results, user_tables, held, written, rdVars, hwVars>>

SaveInstructionPointer(c) ==
    /\ Running
    /\ cpu[c].pc = "save_instruction_pointer"
    /\ LET x == save_instruction_pointer(cpu[c],
                                         core_local[c].running_application_data)
       IN  /\ cpu' = [cpu EXCEPT ![c] = x.cpu]
           /\ core_local' =
                  [core_local EXCEPT ![c].running_application_data = x.cld]
    /\ hist' = NoHist
    /\ UNCHANGED <<mem, resources, results, user_tables, held, written, rdVars, hwVars>>

\* user_app/src/test.rs, main: COUNTER.fetch_add(1) on the word of the segment.
UserFetchAdd(c) ==
    /\ Running
    /\ cpu[c].pc = "user" /\ ProgramOf(c) = "test" /\ cpu[c].upc.at = "entry"
    /\ IF IsMapped(mem, mem.cr3[c], SegmentPage)
       THEN LET ret == read_word(mem, c, SegmentPage)
            IN  /\ mem' = write_word(mem, c, SegmentPage, ret + 1)
                /\ cpu' = [cpu EXCEPT ![c] =
                       [Clobber(@) EXCEPT
                           !.upc.at = IF ret = 0 THEN "rec" ELSE "panic",
                           !.upc.count = MaxCallDepth - 1,
                           !.upc.ret = ret]]
       ELSE mem' = Panic(mem, "page fault") /\ cpu' = cpu
    /\ hist' = NoHist
    /\ UNCHANGED <<resources, core_local, results, user_tables, held, written,
                   rdVars, hwVars>>

\* A call inside the program: rec(count) of test.rs, or any call of "nested".
UserCall(c) ==
    /\ Running
    /\ cpu[c].pc = "user"
    /\ \/ ProgramOf(c) = "test" /\ cpu[c].upc.at = "rec"
       \/ ProgramOf(c) = "nested" /\ cpu[c].upc.frames < MaxCallDepth
    /\ UserStep(c, [Push(Clobber(cpu[c]), Code("user return")) EXCEPT
                       !.upc.frames = @ + 1,
                       !.upc.count = IF @ = 0 THEN 0 ELSE @ - 1,
                       !.upc.at = IF ProgramOf(c) = "test" /\ cpu[c].upc.count = 0
                                  THEN "collect" ELSE @])

\* rec(0) of test.rs collects a Vec: the alloc service.
UserAlloc(c) ==
    /\ Running
    /\ cpu[c].pc = "user" /\ ProgramOf(c) = "test" /\ cpu[c].upc.at = "collect"
    /\ LET x == user_alloc(mem, resources, core_local, c)
       IN  /\ mem' = x.m
           /\ resources' = x.rs
           /\ hist' = [op |-> "alloc", core |-> c, heap |-> x.heap]
    /\ cpu' = [cpu EXCEPT ![c].upc.at = "print_vec"]
    /\ UNCHANGED <<core_local, results, user_tables, held, written, rdVars, hwVars>>

\* print_vec of test.rs drops the Vec: the dealloc service.
UserDealloc(c) ==
    /\ Running
    /\ cpu[c].pc = "user" /\ ProgramOf(c) = "test" /\ cpu[c].upc.at = "print_vec"
    /\ LET x == user_dealloc(mem, resources, core_local, c)
       IN  /\ mem' = x.m
           /\ resources' = x.rs
           /\ hist' = [op |-> "dealloc", core |-> c, heap |-> x.heap]
    /\ cpu' = [cpu EXCEPT ![c].upc.at = "unwind"]
    /\ UNCHANGED <<core_local, results, user_tables, held, written, rdVars, hwVars>>

\* A function of the program returns to its caller in the program.
UserRet(c) ==
    /\ Running
    /\ cpu[c].pc = "user" /\ cpu[c].upc.frames > 0
    /\ \/ ProgramOf(c) = "test" /\ cpu[c].upc.at = "unwind"
       \/ ProgramOf(c) = "nested"
    /\ LoaderStep(c, [Pop(cpu[c]) EXCEPT !.upc.frames = @ - 1])

\* The entry point returns: 666 from main.rs, the old COUNTER from test.rs.
EntryReturns(c, value) ==
    /\ Running
    /\ cpu[c].pc = "user" /\ cpu[c].upc.frames = 0
    /\ \/ ProgramOf(c) = "main" /\ value = 666
       \/ ProgramOf(c) = "test" /\ cpu[c].upc.at = "unwind" /\ value = cpu[c].upc.ret
       \/ ProgramOf(c) = "nested" /\ value \in ExitCodes
    /\ LoaderStep(c, entry_returns(cpu[c], value))

\* The program calls the abort service: the panic handler of test.rs with 42,
\* "nested" at any depth with any code.
UserAbort(c, exit_code) ==
    /\ Running
    /\ cpu[c].pc = "user"
    /\ \/ ProgramOf(c) = "test" /\ cpu[c].upc.at = "panic" /\ exit_code = 42
       \/ ProgramOf(c) = "nested" /\ exit_code \in ExitCodes
    /\ IF core_local[c].running_application_data.is_some
       THEN LoaderStep(c, abort(cpu[c], core_local[c].running_application_data,
                                c, exit_code))
       ELSE /\ mem' = Panic(mem, "The abort instruction pointer is not set")
            /\ hist' = NoHist
            /\ UNCHANGED <<cpu, resources, core_local, results, user_tables,
                           held, written, rdVars, hwVars>>

SaveInstructionPointerReturns(c) ==
    /\ Running
    /\ cpu[c].pc = "after call rsi"
    /\ LoaderStep(c, save_instruction_pointer_returns(cpu[c]))

Reentry(c) ==
    /\ Running
    /\ cpu[c].pc = "reentry"
    /\ LoaderStep(c, reentry(cpu[c], core_local))

SwitchStackAndExecuteReturns(c) ==
    /\ Running
    /\ cpu[c].pc = "switch_stack_and_execute returns"
    /\ LoaderStep(c, switch_stack_and_execute_returns(cpu[c]))

\* run after switch_stack_and_execute, and its return to the caller.
RunTail(c) ==
    /\ Running
    /\ cpu[c].pc = "run_tail"
    /\ LET x == run_tail(mem, core_local, c)
           k == Ret(cpu[c])
       IN  /\ mem' = x.m
           /\ core_local' = x.cl
           /\ results' = Append(results,
                  [core |-> c, resources |-> k.resources, site |-> k.site,
                   ret |-> k.rax, via |-> k.via, exit_code |-> k.exit_code,
                   saved_stack_pointer |->
                       core_local[c].running_application_data.saved_stack_pointer,
                   record_after |-> x.cl[c].running_application_data,
                   rsp |-> k.rsp, pc |-> k.pc, frames |-> k.frames,
                   callee_saved |-> <<k.rbx, k.r14, k.r15>>])
    /\ cpu' = [cpu EXCEPT ![c] = [CpuIdle EXCEPT !.runs = cpu[c].runs]]
    /\ hist' = NoHist
    /\ UNCHANGED <<resources, user_tables, held, written, rdVars, hwVars>>

ReturnValues == ExitCodes \cup {666} \cup (0 .. MaxRuns)

LoaderInit ==
    /\ resources = <<>>
    /\ core_local = [c \in Cores |-> [running_application_data |-> NoneRecord]]
    /\ cpu = [c \in Cores |-> CpuIdle]
    /\ results = <<>>

InitLoader == MemoryInit(NLoaderFrames) /\ RamDiskUnused /\ LoaderInit /\ HwUnused

NextLoader ==
    \/ \E c \in Cores, file \in Programs : PrepareApplication(c, ElfOf(file))
    \/ \E c \in Cores, r \in 1 .. MaxUserSpaces, site \in CallSites : Run(c, r, site)
    \/ \E c \in Cores : SwitchStackAndExecute(c)
    \/ \E c \in Cores : SaveInstructionPointer(c)
    \/ \E c \in Cores : UserFetchAdd(c)
    \/ \E c \in Cores : UserCall(c)
    \/ \E c \in Cores : UserAlloc(c)
    \/ \E c \in Cores : UserDealloc(c)
    \/ \E c \in Cores : UserRet(c)
    \/ \E c \in Cores, value \in ReturnValues : EntryReturns(c, value)
    \/ \E c \in Cores, exit_code \in ExitCodes : UserAbort(c, exit_code)
    \/ \E c \in Cores : SaveInstructionPointerReturns(c)
    \/ \E c \in Cores : Reentry(c)
    \/ \E c \in Cores : SwitchStackAndExecuteReturns(c)
    \/ \E c \in Cores : RunTail(c)

SpecLoader == InitLoader /\ [][NextLoader]_vars

-----------------------------------------------------------------------------
(* C1: over every sequence of allocate_frame / deallocate_frame calls        *)
(* total_frames keeps its initial value and free_frames plus the number of   *)
(* frames handed out equals total_frames; once every handed-out frame is     *)
(* back, free_frames is the initial count again.                             *)
C1_FrameAccounting ==
    /\ mem.total_frames = NFrames
    /\ mem.free_frames + Cardinality(mem.handed_out) = mem.total_frames
    /\ get_memory_utilization(mem)[1] = Cardinality(mem.handed_out)
    /\ (mem.handed_out = {} => mem.free_frames = NFrames)

\* Frames were handed out and all of them have come back.
C1_Witness ==
    /\ hist.op = "deallocate_frame"
    /\ mem.handed_out = {}
    /\ mem.free_list # Upto(NFrames)

(* C2 as claimed: map_ram_kernel(p, f) followed by unmap_ram(p), for a page  *)
(* p of the kernel range that was unmapped, leaves the free list and the     *)
(* free-frame count as they were and leaves p unmapped, whatever             *)
(* intermediate tables existed before.                                       *)
C2_PairIsNoOp ==
    (hist.op = "map_ram_kernel;unmap_ram" /\ ~hist.was_mapped /\ Running)
    => /\ mem.free_list = hist.free_list
       /\ mem.free_frames = hist.free_frames
       /\ ~IsMapped(mem, mem.cr3[hist.core], hist.page)

(* C2 amended: the pair leaves p unmapped and puts the data frame back at    *)
(* the head of the free list; the allocator is as before exactly when the    *)
(* three intermediate tables of p existed already, and otherwise the frames  *)
(* taken for the missing tables stay allocated.                              *)
C2_PairIsNoOpWhenTablesExist ==
    (hist.op = "map_ram_kernel;unmap_ram" /\ ~hist.was_mapped /\ Running)
    => /\ ~IsMapped(mem, mem.cr3[hist.core], hist.page)
       /\ mem.free_frames = hist.free_frames - hist.missing
       /\ mem.free_list = <<Head(hist.free_list)>>
              \o SubSeq(hist.free_list, hist.missing + 2, Len(hist.free_list))
       /\ (hist.tables_exist =>
             mem.free_list = hist.free_list /\ mem.free_frames = hist.free_frames)

\* The pair has run on a page whose intermediate tables existed.
C2_Witness ==
    /\ hist.op = "map_ram_kernel;unmap_ram"
    /\ ~hist.was_mapped
    /\ hist.tables_exist
    /\ Running

C4_UserPagesPrivate ==
    \A k \in DOMAIN written :
        /\ IsMapped(mem, k[1], k[2])
        /\ read_through(mem, k[1], k[2]) = written[k]

\* Two user address spaces hold different values at the same virtual page,
\* and the first one is active again.
C4_Witness ==
    \E a \in user_tables, b \in user_tables :
        /\ a # b
        /\ <<a, USER_STACK_START>> \in DOMAIN written
        /\ <<b, USER_STACK_START>> \in DOMAIN written
        /\ written[<<a, USER_STACK_START>>] = 42
        /\ written[<<b, USER_STACK_START>>] = 666
        /\ mem.cr3[0] = a
        /\ read_word(mem, 0, USER_STACK_START) = 42


-----------------------------------------------------------------------------
\* The results of the runs of the resources r that returned before result i.
EarlierRuns(r, i) == {j \in 1 .. (i - 1) : results[j].resources = r}

(* C5: the state of a program belongs to its resources: the COUNTER word of  *)
(* resources prepared from test.rs counts the runs of these resources alone,  *)
(* so their first run returns 0 and every later run aborts with 42, however   *)
(* the runs of other resources are interleaved with them.                     *)
C5_ProgramStatePerResources ==
    /\ \A i \in 1 .. Len(results) :
          resources[results[i].resources].entry_point_virt_addr = "test" =>
              results[i].ret = IF EarlierRuns(results[i].resources, i) = {}
                               THEN Num(0) ELSE Num(42)
    /\ \A r \in 1 .. Len(resources) :
          (resources[r].entry_point_virt_addr = "test" /\ NotRunning(r)) =>
              read_through(mem, resources[r].l4_page_table, SegmentPage)
                  = Cardinality(EarlierRuns(r, Len(results) + 1))

\* run(A) = 0, run(B) = 0, run(A) = 42 for two resources prepared from test.rs.
C5_Witness ==
    /\ Len(results) = 3
    /\ Len(resources) = 2
    /\ resources[1].entry_point_virt_addr = "test"
    /\ resources[2].entry_point_virt_addr = "test"
    /\ results[1].resources = 1 /\ results[1].ret = Num(0)
    /\ results[2].resources = 2 /\ results[2].ret = Num(0)
    /\ results[3].resources = 1 /\ results[3].ret = Num(42)

RunsReturnedOn(c) == Cardinality({i \in 1 .. Len(results) : results[i].core = c})

(* C6: abort(exit_code), at any call depth of the program, continues at the  *)
(* re-entry address the current run saved, with the kernel stack pointer this *)
(* run saved, and run returns exit_code; a return of the entry point makes    *)
(* run return the returned value; either way run returns exactly once.        *)
C6_AbortAndReturn ==
    /\ \A c \in Cores :
          /\ cpu[c].pc # "crashed"
          /\ (cpu[c].pc = "reentry" /\ cpu[c].via = "abort") =>
                /\ core_local[c].running_application_data.abort_addr = Code("reentry")
                /\ cpu[c].rax = Num(cpu[c].exit_code)
          /\ cpu[c].pc = "switch_stack_and_execute returns" =>
                /\ cpu[c].rsp.stack = "kernel"
                /\ cpu[c].rsp.depth + 4 =
                     core_local[c].running_application_data.saved_stack_pointer.depth
                /\ cpu[c].r13 = Num(cpu[c].exit_code)
          /\ RunsReturnedOn(c) + (IF cpu[c].pc = "idle" THEN 0 ELSE 1) = cpu[c].runs
    /\ \A i \in 1 .. Len(results) :
          /\ results[i].ret = Num(results[i].exit_code)
          /\ results[i].pc = "return to caller"

\* An abort with 42 below MaxCallDepth calls, and a normal return, both done.
C6_Witness ==
    /\ \E i \in 1 .. Len(results) :
          /\ results[i].via = "abort"
          /\ results[i].frames = MaxCallDepth
          /\ results[i].ret = Num(42)
    /\ \E i \in 1 .. Len(results) :
          results[i].via = "return" /\ results[i].ret = Num(666)

Executing ==
    {"save_instruction_pointer", "user", "after call rsi", "reentry",
     "switch_stack_and_execute returns", "run_tail"}

(* C7: the running-program record of a core is present exactly while a       *)
(* program executes on it: while the program runs the record points at the    *)
(* resources given to run and their address space is active, alloc and        *)
(* dealloc use the heap of these resources, and once run has returned the     *)
(* record is cleared and the kernel address space is active.                  *)
C7_RecordWhileExecuting ==
    Running =>
        /\ \A c \in Cores :
              /\ core_local[c].running_application_data.is_some
                    <=> cpu[c].pc \in Executing
              /\ cpu[c].pc = "user" =>
                    /\ core_local[c].running_application_data.application_resources
                          = cpu[c].resources
                    /\ mem.cr3[c] = resources[cpu[c].resources].l4_page_table
              /\ cpu[c].pc = "idle" => mem.cr3[c] = mem.kernel_page_table
        /\ hist.op \in {"alloc", "dealloc"} =>
              /\ hist.heap = cpu[hist.core].resources
              /\ resources[hist.heap].heap.pages = 1
              /\ IsMapped(mem, resources[hist.heap].l4_page_table, USER_HEAP_START)
        /\ \A i \in 1 .. Len(results) : ~results[i].record_after.is_some

\* The program of the second of two resources has just allocated.
C7_Witness ==
    /\ hist.op = "alloc"
    /\ Len(resources) = 2
    /\ hist.heap = 2
    /\ Len(results) > 0

(* C8: two runs of the same resources on the same core from the same call    *)
(* site save the same kernel stack pointer, the record is cleared after each, *)
(* and the kernel stack and the callee-saved registers are back where they    *)
(* were, also after an abort.                                                 *)
C8_RunTwice ==
    /\ \A i \in 1 .. Len(results), j \in 1 .. Len(results) :
          (/\ results[i].core = results[j].core
           /\ results[i].resources = results[j].resources
           /\ results[i].site = results[j].site) =>
              results[i].saved_stack_pointer = results[j].saved_stack_pointer
    /\ \A i \in 1 .. Len(results) :
          /\ results[i].record_after = NoneRecord
          /\ results[i].rsp = [stack |-> "kernel", depth |-> results[i].site]
          /\ results[i].callee_saved
                = <<KernelValue("rbx"), KernelValue("r14"), KernelValue("r15")>>
    /\ \A c \in Cores :
          cpu[c].pc = "switch_stack_and_execute returns" =>
              /\ cpu[c].rsp = [stack |-> "kernel", depth |-> cpu[c].site + 2]
              /\ cpu[c].rbx = KernelValue("rbx")

\* A run after a run of the same resources, core and call site that aborted.
C8_Witness ==
    /\ Len(results) >= 2
    /\ results[1].via = "abort"
    /\ results[2].core = results[1].core
    /\ results[2].resources = results[1].resources
    /\ results[2].site = results[1].site
    /\ results[2].site = 1

-----------------------------------------------------------------------------
\* The payload offset where file i of the loaded container ends (E_{-1} = 0).
RegionEnd(i) == IF i < 0 THEN 0 ELSE U64At(ramdisk, 3 + i)

\* The payload of the loaded container: the bytes after the header.
Payload == SubSeq(ramdisk, (Len(rd_files) + 3) * 8 + 1, Len(ramdisk))

(* C9: for every list of files (empty files included) the container built by *)
(* the packager decodes so that get_file_count() is the number of files and   *)
(* get_file_slice(i) is byte-equal to file i, which occupies the payload      *)
(* offsets E_{i-1} .. E_i; consecutive files are adjacent and do not overlap. *)
C9_RoundTrip ==
    (ramdisk # <<>> /\ rd_fault = NoFault) =>
        /\ rd_out.op = "get_file_count" => rd_out.value = Len(rd_files)
        /\ rd_out.op = "get_file_slice" /\ rd_out.index < Len(rd_files) =>
              /\ rd_out.value = rd_files[rd_out.index + 1]
              /\ rd_out.value = SubSeq(Payload, RegionEnd(rd_out.index - 1) + 1,
                                       RegionEnd(rd_out.index))
        /\ \A i \in 0 .. (Len(rd_files) - 1) :
              /\ RegionEnd(i - 1) <= RegionEnd(i)
              /\ RegionEnd(i) - RegionEnd(i - 1) = Len(rd_files[i + 1])
        /\ RegionEnd(Len(rd_files) - 1) = Len(Payload)

\* The second of two files was read back, after an empty first file.
C9_Witness ==
    /\ rd_fault = NoFault
    /\ Len(rd_files) = 2
    /\ rd_files[1] = <<>>
    /\ rd_out.op = "get_file_slice"
    /\ rd_out.index = 1
    /\ rd_out.value = <<255, 0>>

HeaderLengthMatches == SubSeq(ramdisk, 1, 8) = to_le_bytes(ramdisk_len)

HeaderCrcMatches ==
    SubSeq(ramdisk, 9, 16) = Crc32LeBytes(SubSeq(ramdisk, 17, ramdisk_len))

(* C10: the soundness check passes if and only if the length stored in the   *)
(* header equals the length reported by the boot info and the stored CRC      *)
(* equals the CRC-32 of the bytes from offset 16 on; a container with one     *)
(* flipped payload byte fails, and every container of the packager passes.    *)
C10_SoundIffLengthAndCrc ==
    rd_sound # None =>
        /\ (rd_sound = "ok") <=> (HeaderLengthMatches /\ HeaderCrcMatches)
        /\ (rd_fault # NoFault /\ rd_fault.pos > (Len(rd_files) + 3) * 8)
              => rd_sound # "ok"
        /\ rd_fault = NoFault => rd_sound = "ok"

-----------------------------------------------------------------------------
(* Unsigned integers wider than 31 bits are little-endian sequences of      *)
(* bytes, as u64::to_le_bytes gives them.                                    *)

Bytes == Seq(0 .. 255)

Limb(a, i) == IF i \in 1 .. Len(a) THEN a[i] ELSE 0

\* The number a in n bytes: zero-extended, or truncated (`as`, wrapping).
Pad[a \in Bytes, n \in Nat] ==
    IF n = 0 THEN <<>> ELSE Append(Pad[a, n - 1], Limb(a, n))

\* The number a is below 256^n.
FitsIn[a \in Bytes, n \in Nat] == \A k \in (n + 1) .. Len(a) : a[k] = 0

IsZero[a \in Bytes] == \A k \in 1 .. Len(a) : a[k] = 0

\* The sum of a[i] * b[k + 1 - i] for i in 1 .. n: one column of the product.
ColumnSum[a \in Bytes, b \in Bytes, k \in Nat, n \in Nat] ==
    IF n = 0 THEN 0
    ELSE Limb(a, n) * Limb(b, k + 1 - n) + ColumnSum[a, b, k, n - 1]

\* The product a * b without any loss, in Len(a) + Len(b) bytes.
wide_mul[a \in Bytes, b \in Bytes] ==
    LET n == Len(a) + Len(b)
        mul[k \in 1 .. (n + 1), carry \in Nat] ==
            IF k = n + 1 THEN <<>>
            ELSE <<(ColumnSum[a, b, k, k] + carry) % 256>>
                     \o mul[k + 1, (ColumnSum[a, b, k, k] + carry) \div 256]
    IN  mul[1, 0]

\* u64 `/` by a divisor below 2^23: long division from the top byte.
div_small[a \in Bytes, d \in Nat] ==
    LET div[k \in 0 .. Len(a), r \in Nat] ==
            IF k = 0 THEN <<>>
            ELSE Append(div[k - 1, (r * 256 + a[k]) % d], (r * 256 + a[k]) \div d)
    IN  div[Len(a), 0]

\* 0xFFFF_FFFF - a for a u32 a.
sub_from_u32_max(a) == <<255 - a[1], 255 - a[2], 255 - a[3], 255 - a[4]>>

\* A number below 2^16 as a u16.
u16(n) == <<n % 256, n \div 256>>

U32_MAX == <<255, 255, 255, 255>>

-----------------------------------------------------------------------------
(* pit.rs: channel 2 of the programmable interval timer.  control is port    *)
(* 0x61 (bit 0 gates the channel, bit 5 shows its output), mode the last     *)
(* byte written to port 0x43, data the bytes written to port 0x42 since the  *)
(* last mode byte; counter is the count the channel has loaded.              *)

PitMicroseconds == {0, 1, 200, 10000, 50000, 54925, 54926, 60000, 65535}

\* BASE_FREQUENCY = 1_193_182 = 0x1234DE.
BASE_FREQUENCY == <<222, 52, 18>>

NoCount == 0 - 1

\* The channel as the firmware may have left it.
PitPowerOn(enable, status) ==
    [control |-> [enable_timer_counter2 |-> enable, enable_speaker_data |-> FALSE],
     status_timer_counter2 |-> status,
     mode |-> 0,
     data |-> <<>>,
     counter |-> NoCount,
     pc |-> "idle", via |-> "none", us |-> 0, result |-> "none",
     written_ports |-> {}, before |-> <<>>]

\* What the ports hold.
PitPorts(p) == <<p.control, p.status_timer_counter2, p.mode, p.data, p.counter>>

\* Mode::new(LowAndHighByte, InterruptOnTerminalCount, false) with channel 2.
PitMode == 2 * 64 + 3 * 16 + 0 * 2 + 0

\* The counter set computes for us.
pit_counter(us) == div_small[Pad[wide_mul[BASE_FREQUENCY, Pad[u16(us), 8]], 8], 1000000]

\* set: the channel afterwards and the result.  Writing the mode byte takes
\* the output low; the second data byte loads the count.
set_checks_after_control(p, us) ==
    LET counter == pit_counter(us)
        called == [p EXCEPT !.us = us, !.before = PitPorts(p), !.written_ports = {}]
    IN  IF ~FitsIn[counter, 2]
        THEN [called EXCEPT !.control.enable_speaker_data = FALSE,
                            !.control.enable_timer_counter2 = TRUE,
                            !.written_ports = {97},
                            !.result = "OutOfRange"]
        ELSE [called EXCEPT !.control.enable_speaker_data = FALSE,
                            !.control.enable_timer_counter2 = TRUE,
                            !.mode = PitMode,
                            !.status_timer_counter2 = FALSE,
                            !.data = <<counter[1], counter[2]>>,
                            !.counter = counter[1] + 256 * counter[2],
                            !.written_ports = {97, 67, 66},
                            !.result = "Ok"]

set(p, us) ==
    LET counter == pit_counter(us)
        called == [p EXCEPT !.us = us, !.before = PitPorts(p), !.written_ports = {}]
    IN  IF ~FitsIn[counter, 2]
        THEN [called EXCEPT !.result = "OutOfRange"]
        ELSE [called EXCEPT !.control.enable_speaker_data = FALSE,
                            !.control.enable_timer_counter2 = TRUE,
                            !.mode = PitMode,
                            !.status_timer_counter2 = FALSE,
                            !.data = <<counter[1], counter[2]>>,
                            !.counter = counter[1] + 256 * counter[2],
                            !.written_ports = {97, 67, 66},
                            !.result = "Ok"]

\* is_active
is_active(p) == p.control.enable_timer_counter2 /\ ~p.status_timer_counter2

\* One pass of the loop of wait_for_timeout: the result, or "spin".
wait_for_timeout(p) ==
    IF ~p.control.enable_timer_counter2 THEN "NotActive"
    ELSE IF p.status_timer_counter2 THEN "Ok"
    ELSE "spin"

\* delay up to the loop of wait_for_timeout.
delay(p, us, via) ==
    LET s == set(p, us)
    IN  IF s.result # "Ok" THEN [s EXCEPT !.via = via]
        ELSE [s EXCEPT !.pc = "wait_for_timeout", !.via = via, !.result = "none"]

\* disable
disable(p) ==
    [p EXCEPT !.control.enable_speaker_data = FALSE,
              !.control.enable_timer_counter2 = FALSE,
              !.written_ports = {97}]

-----------------------------------------------------------------------------
(* apic.rs: the timer of the local APIC of one core, with the timer fields   *)
(* of its CoreLocalData.  Register values and tick counts are u32 / u64 in   *)
(* bytes; None is the empty sequence.                                        *)

\* Ticks the timer can count in the 50 ms of the calibration:
\* 0, 1, 50_000, 100_000, 0x8000_0000, 0xCCCC_CCCD, 0xFFFF_FFFF.
TicksIn50ms ==
    {<<0, 0, 0, 0>>, <<1, 0, 0, 0>>, <<80, 195, 0, 0>>, <<160, 134, 1, 0>>,
     <<0, 0, 0, 128>>, <<205, 204, 204, 204>>, U32_MAX}

\* interval_us: 0, 1, 1000, 30_000, 0x8000_0000, 0xFFFF_FFFF.
Intervals ==
    {<<0, 0, 0, 0>>, <<1, 0, 0, 0>>, <<232, 3, 0, 0>>, <<48, 117, 0, 0>>,
     <<0, 0, 0, 128>>, U32_MAX}

\* The functions given to start_timer (common_main.rs).
TimerCallbacks == {"int", "timer_interrupt"}

\* LVT timer entry: masked; vector 32 with bit 17; vector 32 with bit 18.
LvtMasked == 65536
LvtPeriodic == 32 + 131072
LvtOneShot == 32 + 262144

ApicPowerOn(overflow_checks) ==
    [divide |-> 0,
     initial_count |-> <<0, 0, 0, 0>>,
     lvt |-> LvtMasked,
     apic_timer_ticks_per_second |-> <<>>,
     apic_timer_interrupt_function |-> "none",
     pc |-> "idle",
     overflow_checks |-> overflow_checks,
     call |-> [op |-> "none"]]

\* init_timer up to the wait of pit::delay(50_000).
init_timer_start(a) ==
    [a EXCEPT !.divide = 3, !.initial_count = U32_MAX, !.pc = "init_timer",
              !.call = [op |-> "init_timer"]]

\* init_timer after the delay, when TimerCurrentCount reads current_count.
init_timer_finish(a, current_count) ==
    LET ticks_in_50ms == sub_from_u32_max(current_count)
        ticks_per_second == Pad[wide_mul[ticks_in_50ms, <<20>>], 8]
        stopped == [a EXCEPT !.lvt = LvtMasked, !.pc = "idle",
                             !.call = [op |-> "init_timer",
                                       current_count |-> current_count]]
    IN  IF IsZero[ticks_per_second]
        THEN [apic |-> stopped, panic |-> "apic timer initialization failed"]
        ELSE [apic |-> [stopped EXCEPT
                           !.apic_timer_ticks_per_second = ticks_per_second],
              panic |-> None]

\* start_timer.  The u64 product panics on overflow in a build with overflow
\* checks and wraps in a build without.
start_timer(a, interval_us, periodic, interrupt) ==
    LET stored == [a EXCEPT !.apic_timer_interrupt_function = interrupt]
        ticks_per_second == a.apic_timer_ticks_per_second
        product == wide_mul[ticks_per_second, Pad[interval_us, 8]]
        ticks_in_interval == div_small[Pad[product, 8], 1000000]
        call == [op |-> "start_timer", interval_us |-> interval_us,
                 periodic |-> periodic, interrupt |-> interrupt]
        returns(x, result, panic) ==
            [apic |-> [x EXCEPT !.call = call @@ [result |-> result]],
             panic |-> panic]
    IN  IF ticks_per_second = <<>>
        THEN returns(stored, "panic", "called Option::unwrap() on a None value")
        ELSE IF a.overflow_checks /\ ~FitsIn[product, 8]
        THEN returns(stored, "panic", "attempt to multiply with overflow")
        ELSE IF ~FitsIn[ticks_in_interval, 4]
        THEN returns(stored, "Err", None)
        ELSE IF periodic /\ IsZero[ticks_in_interval]
        THEN returns(stored, "panic", "assertion failed: ticks_in_interval > 0")
        ELSE returns([stored EXCEPT
                         !.lvt = IF periodic THEN LvtPeriodic ELSE LvtOneShot,
                         !.divide = 3,
                         !.initial_count = Pad[ticks_in_interval, 4]],
                     "Ok", None)

\* stop_timer
stop_timer(a) == [a EXCEPT !.lvt = LvtMasked, !.call = [op |-> "stop_timer"]]

-----------------------------------------------------------------------------
(* The timers' steps: one caller at a time uses the PIT; the channel's       *)
(* output goes high when the loaded count has run down.                      *)

TimerStep(m, a, p) ==
    /\ mem' = m
    /\ apic' = a
    /\ pit' = p
    /\ UNCHANGED notTimerVars

PitSet(us) ==
    /\ Running
    /\ pit.pc = "idle" /\ apic.pc = "idle"
    /\ TimerStep(mem, apic, [set(pit, us) EXCEPT !.via = "set"])

PitDelay(us) ==
    /\ Running
    /\ pit.pc = "idle" /\ apic.pc = "idle"
    /\ TimerStep(mem, apic, delay(pit, us, "delay"))

PitWaitForTimeout ==
    /\ Running
    /\ pit.pc = "idle" /\ apic.pc = "idle"
    /\ TimerStep(mem, apic, [pit EXCEPT !.pc = "wait_for_timeout",
                                        !.via = "wait_for_timeout",
                                        !.result = "none",
                                        !.written_ports = {},
                                        !.before = PitPorts(pit)])

\* The loop of wait_for_timeout leaves with a result.
PitWaitReturns ==
    /\ Running
    /\ pit.pc = "wait_for_timeout" /\ apic.pc = "idle"
    /\ wait_for_timeout(pit) # "spin"
    /\ TimerStep(mem, apic, [pit EXCEPT !.pc = "idle",
                                        !.result = wait_for_timeout(pit)])

PitDisable ==
    /\ Running
    /\ pit.pc = "idle" /\ apic.pc = "idle"
    /\ TimerStep(mem, apic, [disable(pit) EXCEPT !.via = "disable",
                                                 !.result = "none"])

\* The hardware: the gated channel reaches its terminal count.
PitTerminalCount ==
    /\ Running
    /\ pit.control.enable_timer_counter2
    /\ pit.counter # NoCount
    /\ ~pit.status_timer_counter2
    /\ TimerStep(mem, apic, [pit EXCEPT !.status_timer_counter2 = TRUE])

InitTimerStart ==
    /\ Running
    /\ pit.pc = "idle" /\ apic.pc = "idle"
    /\ TimerStep(mem, init_timer_start(apic), delay(pit, 50000, "init_timer"))

\* pit::delay(50_000).unwrap() returns, and the rest of init_timer.
InitTimerFinish(current_count) ==
    /\ Running
    /\ apic.pc = "init_timer"
    /\ wait_for_timeout(pit) # "spin"
    /\ LET waited == [pit EXCEPT !.pc = "idle", !.result = wait_for_timeout(pit)]
           x == init_timer_finish(apic, current_count)
       IN  IF waited.result # "Ok"
           THEN TimerStep(Panic(mem, "called Result::unwrap() on an Err value"),
                          apic, waited)
           ELSE TimerStep(IF x.panic = None THEN mem ELSE Panic(mem, x.panic),
                          x.apic, waited)

StartTimer(interval_us, periodic, interrupt) ==
    /\ Running
    /\ apic.pc = "idle"
    /\ LET x == start_timer(apic, interval_us, periodic, interrupt)
       IN  TimerStep(IF x.panic = None THEN mem ELSE Panic(mem, x.panic),
                     x.apic, pit)

StopTimer ==
    /\ Running
    /\ apic.pc = "idle"
    /\ TimerStep(mem, stop_timer(apic), pit)

InitTimers ==
    /\ MemoryInit(NFrames) /\ RamDiskUnused /\ LoaderUnused
    /\ \E overflow_checks \in BOOLEAN : apic = ApicPowerOn(overflow_checks)
    /\ \E enable \in BOOLEAN, status \in BOOLEAN : pit = PitPowerOn(enable, status)
    /\ SmpUnused /\ ConUnused /\ MemLockUnused /\ HeapUnused /\ BootUnused

\* The callers of the PIT and its hardware.
NextPit ==
    \/ \E us \in PitMicroseconds : PitSet(us)
    \/ \E us \in PitMicroseconds : PitDelay(us)
    \/ PitWaitForTimeout
    \/ PitWaitReturns
    \/ PitDisable
    \/ PitTerminalCount

SpecPit == InitTimers /\ [][NextPit]_vars

\* The callers of the APIC timer, with the PIT as init_timer uses it.
NextApic ==
    \/ InitTimerStart
    \/ PitTerminalCount
    \/ \E t \in TicksIn50ms : InitTimerFinish(sub_from_u32_max(t))
    \/ \E interval_us \in Intervals, periodic \in BOOLEAN,
          interrupt \in TimerCallbacks : StartTimer(interval_us, periodic, interrupt)
    \/ StopTimer

SpecApic == InitTimers /\ [][NextApic]_vars

-----------------------------------------------------------------------------
\* a + 1 in the bytes of a (wrapping).
AddOne[a \in Bytes] ==
    LET add[k \in 1 .. (Len(a) + 1), carry \in 0 .. 1] ==
            IF k = Len(a) + 1 THEN <<>>
            ELSE <<(a[k] + carry) % 256>> \o add[k + 1, (a[k] + carry) \div 256]
    IN  add[1, 1]

\* interval_us * ticks_per_second / 10^6 of the last start_timer call, exactly.
ExactTicksInInterval ==
    div_small[wide_mul[apic.apic_timer_ticks_per_second,
                       Pad[apic.call.interval_us, 8]], 1000000]

(* C11: on a calibrated core start_timer returns failure exactly when        *)
(* interval_us * ticks_per_second / 10^6 exceeds 2^32 - 1, and otherwise     *)
(* returns Ok with an initial count at most 1 away from that value; the      *)
(* 64-bit product does not overflow.                                         *)
C11_StartTimerExact ==
    (apic.call.op = "start_timer" /\ apic.apic_timer_ticks_per_second # <<>>) =>
        /\ apic.call.result = "Err" <=> ~FitsIn[ExactTicksInInterval, 4]
        /\ apic.call.result # "Err" =>
              /\ apic.call.result = "Ok"
              /\ LET c == Pad[apic.initial_count, 16]
                 IN  \/ c = ExactTicksInInterval
                     \/ c = AddOne[ExactTicksInInterval]
                     \/ AddOne[c] = ExactTicksInInterval

-----------------------------------------------------------------------------
\* floor(1_193_182 * us / 1_000_000) for a u16 us, in integers below 2^31:
\* with us = 1000 q + r the product is 1_193_182_000 q + 1_193_182 r.
ExactPitCount(us) ==
    LET q == us \div 1000
        r == us % 1000
    IN  1193 * q + ((182000 * q + 1193182 * r) \div 1000000)

\* The part of the ports that only software changes (the status bit of port
\* 0x61 follows the channel's output).
PitWritable(ports) == <<ports[1], ports[3], ports[4], ports[5]>>

\* The last call was set or delay, from any caller.
PitProgrammed == pit.via \in {"set", "delay", "init_timer"}

(* C12: set(us) returns OutOfRange exactly when floor(1_193_182 * us /       *)
(* 1_000_000) exceeds 65535 and then writes no PIT port; delay hands the     *)
(* error on without waiting; for an accepted us the channel is programmed    *)
(* with that count (gate on, speaker off, mode byte, low then high byte)     *)
(* and delay returns Ok only once the terminal count was reached.            *)
C12_PitSetRange ==
    PitProgrammed =>
        /\ pit.result = "OutOfRange" <=> ExactPitCount(pit.us) > 65535
        /\ pit.result = "OutOfRange" =>
              /\ pit.written_ports = {}
              /\ PitWritable(PitPorts(pit)) = PitWritable(pit.before)
              /\ pit.pc = "idle"
        /\ pit.result # "OutOfRange" =>
              /\ pit.written_ports = {97, 67, 66}
              /\ pit.control.enable_timer_counter2
              /\ ~pit.control.enable_speaker_data
              /\ pit.mode = PitMode
              /\ pit.counter = ExactPitCount(pit.us)
              /\ pit.data = <<pit.counter % 256, pit.counter \div 256>>
              /\ pit.via = "set" => pit.result = "Ok" /\ pit.pc = "idle"
              /\ pit.via # "set" =>
                    \/ pit.pc = "wait_for_timeout" /\ pit.result = "none"
                    \/ /\ pit.pc = "idle" /\ pit.result = "Ok"
                       /\ pit.status_timer_counter2

\* delay(60_000) was refused after an earlier call had programmed the channel.
C12_Witness ==
    /\ pit.via = "delay" /\ pit.us = 60000 /\ pit.result = "OutOfRange"
    /\ pit.counter # NoCount

-----------------------------------------------------------------------------
(* smp.rs, main.rs: the start of the cores.  Core 0 is the bootstrap         *)
(* processor (BSP), cores 1 .. ap_count are the application processors (APs);*)
(* a core's number is its APIC ID.  Addresses inside the AP stack window are *)
(* byte offsets from v::KERNEL_AP_STACKS.                                    *)

\* The largest ap_count ACPI reports.
MaxAps == 2

\* time_out of init_smp (1_000_000 in the source).
SpinBudget == 3

\* align_up(KERNEL_STACK_SIZE, 4096) / 4096 (1024 in the source).
KernelStackPages == 2

\* Physical addresses the active top-level table can have:
\* 0x1000, 0xFFFF_F000, 0x1_0000_0000.
L4Addresses ==
    {<<0, 16, 0, 0, 0, 0, 0, 0>>, <<0, 240, 255, 255, 0, 0, 0, 0>>,
     <<0, 0, 0, 0, 1, 0, 0, 0>>}

\* Ticks an APIC timer counts during the calibration: 0 and 50_000.
SmpTicksIn50ms == {<<0, 0, 0, 0>>, <<80, 195, 0, 0>>}

Bsp == 0
SmpCores == 0 .. smp.ap_count
Aps == 1 .. smp.ap_count

NoIndex == 0 - 1
NoAddress == 0 - 1

\* calc_stack_stride
calc_stack_stride == (KernelStackPages + 1) * 4096

\* The page that holds the byte at `offset` of the AP stack window.
ApStackWindowPage(offset) ==
    <<KERNEL_AP_STACKS[1], 0, (offset \div 4096) \div 512, (offset \div 4096) % 512>>

\* Virtual page 0 and the offsets of the trampoline's parameters in it.
TrampolinePage == <<0, 0, 0, 0>>
ParamL4PageTable == 2560
ParamCoreCounter == 2816
ParamStackStride == 2832
ParamStackBase == 2848
ParamEntryFunction == 2864

\* allocate_stacks without the guard pages.
allocate_stacks_without_guard(m, ap_core_count) ==
    LET pages_per_core == KernelStackPages
        page(k) == ApStackWindowPage(k * 4096)
        map[k \in 0 .. ap_core_count * pages_per_core] ==
            IF k = 0 THEN m
            ELSE Then(map[k - 1], LAMBDA before :
                     IF before.panic # None THEN before
                     ELSE map_ram_kernel(before, Bsp, page(k - 1),
                                         {"WRITABLE", "NO_EXECUTE"}))
    IN  map[ap_core_count * pages_per_core]

\* allocate_stacks: per AP a guard page that stays unmapped, then the pages
\* of its stack.
allocate_stacks(m, ap_core_count) ==
    LET pages_per_core == KernelStackPages
        page(k) == ApStackWindowPage(
                       ((k \div pages_per_core) * (pages_per_core + 1)
                        + 1 + (k % pages_per_core)) * 4096)
        map[k \in 0 .. ap_core_count * pages_per_core] ==
            IF k = 0 THEN m
            ELSE Then(map[k - 1], LAMBDA before :
                     IF before.panic # None THEN before
                     ELSE map_ram_kernel(before, Bsp, page(k - 1),
                                         {"WRITABLE", "NO_EXECUTE"}))
    IN  map[ap_core_count * pages_per_core]

\* ipi::create_send_init_cmd and ipi::create_startup_cmd
create_send_init_cmd ==
    [interupt_vector |-> 0, delivery_mode |-> 5, destination_mode_logical |-> FALSE,
     de_assert |-> FALSE, not_de_assert |-> TRUE, destination_type |-> 3]

create_startup_cmd(vector) ==
    [interupt_vector |-> vector, delivery_mode |-> 6,
     destination_mode_logical |-> FALSE,
     de_assert |-> FALSE, not_de_assert |-> TRUE, destination_type |-> 3]

\* A core before it has run anything of the kernel.
CorePowerOn(pc) ==
    [pc |-> pc,
     ap_index |-> NoIndex,
     rsp |-> NoAddress,
     cr3 |-> <<>>,
     gdt |-> [table |-> "none", index |-> 0],
     tss |-> [table |-> "none", index |-> 0],
     idt |-> FALSE,
     interrupts |-> FALSE,
     apic |-> ApicPowerOn(FALSE),
     time_out |-> 0,
     loaded |-> 0,
     entered |-> 0,
     returned |-> 0,
     local_gen |-> 0,
     led |-> {},
     panic |-> None]

\* The machine when kernel_main starts: the APs are halted, the statics of
\* smp.rs have their initial values, low memory holds nothing of the kernel.
SmpPowerOn(ap_count, l4_addr) ==
    [ap_count |-> ap_count,
     l4_page_table_phys_addr |-> l4_addr,
     cores |-> [c \in 0 .. ap_count |->
                   CorePowerOn(IF c = Bsp THEN "init_gdt_and_exceptions_bsp"
                               ELSE "halted")],
     AP_CORE_COUNTER |-> 0,
     AP_STARTUP_DONE_COUNTER |-> 0,
     CORE_LOCAL |-> [c \in 0 .. ap_count |-> [init |-> FALSE, cpu_index |-> 0]],
     AP_TIMER_INIT_LOCK |-> NoIndex,
     SYNC_STARTUP_BARRIER |-> [constructed |-> 0, num_threads |-> 0, count |-> 0,
                               generation_id |-> 0],
     low |-> [code |-> FALSE, params |-> <<>>],
     events |-> <<>>]

-----------------------------------------------------------------------------
(* The steps of the cores. *)

MAX_CORES == 256

SmpStep(m, s) ==
    /\ mem' = m
    /\ smp' = s
    /\ UNCHANGED <<user_tables, held, written, hist, rdVars, ldrVars, timerVars, con,
                   mlock, heap, boot>>

At(c, pc) == c \in SmpCores /\ smp.cores[c].pc = pc

Goto(s, c, pc) == [s EXCEPT !.cores[c].pc = pc]

\* The panic handler takes the core over and never gives it back.
CorePanic(s, c, msg) == [s EXCEPT !.cores[c].pc = "panicked", !.cores[c].panic = msg]

\* What a core does after a call that the BSP and the APs share.
AfterApicInit(c) == IF c = Bsp THEN "init_smp" ELSE "enable_interrupts"
AfterBarrier(s, c) ==
    IF s.cores[c].returned < 2 THEN "sync_cores_barrier" ELSE "main"

\* init_smp without the assertion on the address.
BelowU32MaxUnchecked(addr) == TRUE

\* l4_page_table_phys_addr < 0xffff_ffff
BelowU32Max(addr) == FitsIn[addr, 4] /\ Pad[addr, 4] # U32_MAX

\* main.rs 74: the BSP loads GDT (with TSS) and IDT.
BspInitGdt ==
    /\ At(Bsp, "init_gdt_and_exceptions_bsp")
    /\ SmpStep(mem, [smp EXCEPT !.cores[Bsp].gdt = [table |-> "GDT", index |-> 0],
                                !.cores[Bsp].tss = [table |-> "TSS", index |-> 0],
                                !.cores[Bsp].idt = TRUE,
                                !.cores[Bsp].pc = "initialize_own_core_local_data"])

\* initialize_own_core_local_data: the slot of the core's APIC ID is written
\* once (OnceCell::get_or_init).
initialize_own_core_local_data_default(s, apic_id, cpu_index) ==
    IF s.CORE_LOCAL[apic_id].init THEN s
    ELSE [s EXCEPT !.CORE_LOCAL[apic_id] = [init |-> TRUE, cpu_index |-> 0]]

initialize_own_core_local_data(s, apic_id, cpu_index) ==
    IF s.CORE_LOCAL[apic_id].init THEN s
    ELSE [s EXCEPT !.CORE_LOCAL[apic_id] = [init |-> TRUE, cpu_index |-> cpu_index]]

InitializeOwnCoreLocalData(c) ==
    /\ At(c, "initialize_own_core_local_data")
    /\ SmpStep(mem, Goto(initialize_own_core_local_data(
                             smp, c,
                             IF c = Bsp THEN 0 ELSE smp.cores[c].ap_index + 1),
                         c, "apic_init"))

\* init_timer without the lock.
TimerInitLockIgnored == TRUE

\* AP_TIMER_INIT_LOCK.lock() returns when no core holds the lock.
TimerInitLockFree == smp.AP_TIMER_INIT_LOCK = NoIndex

\* apic::init up to the wait of init_timer, which holds AP_TIMER_INIT_LOCK.
ApicInit(c) ==
    /\ At(c, "apic_init")
    /\ TimerInitLockFree
    /\ SmpStep(mem, [smp EXCEPT !.AP_TIMER_INIT_LOCK = c,
                                !.cores[c].apic = init_timer_start(@),
                                !.cores[c].pc = "init_timer"])

\* The rest of init_timer.  A panic keeps the lock: nothing unwinds.
ApicInitTimerFinish(c, current_count) ==
    /\ At(c, "init_timer")
    /\ LET x == init_timer_finish(smp.cores[c].apic, current_count)
       IN  IF ~smp.CORE_LOCAL[c].init
           THEN SmpStep(mem, CorePanic(smp, c, "core local data not initialized"))
           ELSE IF x.panic # None
           THEN SmpStep(mem, CorePanic([smp EXCEPT !.cores[c].apic = x.apic],
                                       c, x.panic))
           ELSE SmpStep(mem, [smp EXCEPT !.AP_TIMER_INIT_LOCK = NoIndex,
                                         !.cores[c].apic = x.apic,
                                         !.cores[c].pc = AfterApicInit(c)])

\* init_smp: allocate_stacks.
BspAllocateStacks ==
    /\ At(Bsp, "init_smp")
    /\ LET m == allocate_stacks(mem, smp.ap_count)
       IN  IF m.panic # None THEN SmpStep(m, CorePanic(smp, Bsp, m.panic))
           ELSE SmpStep(m, Goto(smp, Bsp, "ass_l4_page_table_phys_addr"))

\* init_smp: the top-level table must be addressable by the trampoline.
BspAssL4 ==
    /\ At(Bsp, "ass_l4_page_table_phys_addr")
    /\ IF BelowU32Max(smp.l4_page_table_phys_addr)
       THEN SmpStep(mem, Goto(smp, Bsp, "map_trampoline"))
       ELSE SmpStep(mem, CorePanic(smp, Bsp,
                                   "page table is not addressable with 32bits"))

\* init_smp: virtual page 0 is mapped to physical frame 0.
BspMapTrampoline ==
    /\ At(Bsp, "map_trampoline")
    /\ LET m == map_frame(mem, Bsp, TrampolinePage, {"PRESENT", "WRITABLE"}, 0)
       IN  IF m.panic # None THEN SmpStep(m, CorePanic(smp, Bsp, m.panic))
           ELSE SmpStep(m, Goto(smp, Bsp, "copy_trampoline"))

\* init_smp: the blob and its five parameters are written through page 0.
TrampolineParams(s) ==
    (ParamL4PageTable :> s.l4_page_table_phys_addr)
    @@ (ParamCoreCounter :> "AP_CORE_COUNTER")
    @@ (ParamStackStride :> calc_stack_stride)
    @@ (ParamStackBase :> calc_stack_stride - 1)
    @@ (ParamEntryFunction :> "ap_entry_fn")

BspCopyTrampoline ==
    /\ At(Bsp, "copy_trampoline")
    /\ Translate(mem, mem.cr3[Bsp], TrampolinePage).frame = 0
    /\ SmpStep(mem, [smp EXCEPT !.low = [code |-> TRUE,
                                         params |-> TrampolineParams(smp)],
                                !.cores[Bsp].pc = "send_init"])

\* write_interrupt_command: the write of the low half sends the command to
\* every core but the sender (destination_type 3).
write_interrupt_command(s, cmd) ==
    [s EXCEPT !.events = Append(@, [ev |-> "ipi", cmd |-> cmd, us |-> 0]),
              !.cores = [c \in DOMAIN s.cores |->
                  IF c = Bsp \/ cmd.destination_type # 3 THEN s.cores[c]
                  ELSE IF cmd.delivery_mode = 5
                  THEN [s.cores[c] EXCEPT !.pc = "wait_for_sipi"]
                  ELSE IF cmd.delivery_mode = 6 /\ s.cores[c].pc = "wait_for_sipi"
                  THEN [s.cores[c] EXCEPT !.pc = "trampoline"]
                  ELSE s.cores[c]]]

\* startup_aps
BspSendInit ==
    /\ At(Bsp, "send_init")
    /\ SmpStep(mem, Goto(write_interrupt_command(smp, create_send_init_cmd),
                         Bsp, "delay_10_000"))

\* pit::delay(us).unwrap() of startup_aps.
BspDelay(pc, us, next) ==
    /\ At(Bsp, pc)
    /\ IF FitsIn[pit_counter(us), 2]
       THEN SmpStep(mem, Goto([smp EXCEPT !.events =
                                   Append(@, [ev |-> "delay", cmd |-> <<>>, us |-> us])],
                              Bsp, next))
       ELSE SmpStep(mem, CorePanic(smp, Bsp, "called Result::unwrap() on an Err value"))

BspSendStartup(pc, next) ==
    /\ At(Bsp, pc)
    /\ SmpStep(mem, Goto(write_interrupt_command(smp, create_startup_cmd(0)),
                         Bsp, next))

\* init_smp: let mut time_out.
BspStartWaiting ==
    /\ At(Bsp, "wait_for_aps")
    /\ SmpStep(mem, [smp EXCEPT !.cores[Bsp].time_out = SpinBudget,
                                !.cores[Bsp].pc = "spin_check"])

\* init_smp: the condition of the wait loop; the counter is loaded first.
BspSpinCheck ==
    /\ At(Bsp, "spin_check")
    /\ SmpStep(mem, [smp EXCEPT
           !.cores[Bsp].loaded = smp.AP_STARTUP_DONE_COUNTER,
           !.cores[Bsp].pc =
               IF smp.AP_STARTUP_DONE_COUNTER < smp.ap_count
                  /\ smp.cores[Bsp].time_out > 0
               THEN "spin_decrement" ELSE "unmap_trampoline"])

\* init_smp: the body of the wait loop.
BspSpinDecrement ==
    /\ At(Bsp, "spin_decrement")
    /\ SmpStep(mem, [smp EXCEPT !.cores[Bsp].time_out = @ - 1,
                                !.cores[Bsp].pc = "spin_check"])

\* init_smp: page 0 is unmapped (frame 0 is not given to the allocator).
BspUnmapTrampoline ==
    /\ At(Bsp, "unmap_trampoline")
    /\ LET m == unmap(mem, Bsp, TrampolinePage).m
       IN  IF m.panic # None THEN SmpStep(m, CorePanic(smp, Bsp, m.panic))
           ELSE SmpStep(m, Goto(smp, Bsp, "check_time_out"))

\* init_smp: the end.
BspCheckTimeOut ==
    /\ At(Bsp, "check_time_out")
    /\ IF smp.cores[Bsp].time_out = 0
       THEN SmpStep(mem, CorePanic(smp, Bsp, "AP startup timed out"))
       ELSE SmpStep(mem, Goto(smp, Bsp, "enable_interrupts"))

\* x86_64::instructions::interrupts::enable()
EnableInterrupts(c) ==
    /\ At(c, "enable_interrupts")
    /\ SmpStep(mem, [smp EXCEPT !.cores[c].interrupts = TRUE,
                                !.cores[c].pc = "sync_cores_barrier"])

\* The trampoline (smp_trampoline/ap.bin): the AP takes the next index from
\* the counter, its stack at base + index * stride, the top-level table from
\* the 32-bit parameter, and jumps to the entry function.
ApTrampoline(c) ==
    /\ At(c, "trampoline")
    /\ smp.low.code
    /\ SmpStep(mem, [smp EXCEPT
           !.AP_CORE_COUNTER = @ + 1,
           !.cores[c].ap_index = smp.AP_CORE_COUNTER,
           !.cores[c].rsp = smp.low.params[ParamStackBase]
                            + smp.AP_CORE_COUNTER * smp.low.params[ParamStackStride],
           !.cores[c].cr3 = SubSeq(smp.low.params[ParamL4PageTable], 1, 4),
           !.cores[c].pc = smp.low.params[ParamEntryFunction]])

\* ap_entry_fn: AP_STARTUP_DONE_COUNTER.fetch_add(1)
ApEntry(c) ==
    /\ At(c, "ap_entry_fn")
    /\ SmpStep(mem, [smp EXCEPT !.AP_STARTUP_DONE_COUNTER = @ + 1,
                                !.cores[c].pc = "init_gdt_and_exceptions_ap"])

\* init_gdt_and_exceptions_ap(ap_index): AP_GDT[ap_index] holds the
\* descriptor of AP_TSS[ap_index]; the arrays have MAX_CORES - 1 entries.
ApInitGdt(c) ==
    /\ At(c, "init_gdt_and_exceptions_ap")
    /\ LET ap_index == smp.cores[c].ap_index
       IN  IF ap_index >= MAX_CORES - 1
           THEN SmpStep(mem, CorePanic(smp, c, "index out of bounds"))
           ELSE SmpStep(mem, [smp EXCEPT
                    !.cores[c].gdt = [table |-> "AP_GDT", index |-> ap_index],
                    !.cores[c].tss = [table |-> "AP_TSS", index |-> ap_index],
                    !.cores[c].idt = TRUE,
                    !.cores[c].pc = "initialize_own_core_local_data"])

\* A barrier that counts the APs only.
BarrierNewForAps(ap_count) ==
    [constructed |-> 1, num_threads |-> ap_count, count |-> 0, generation_id |-> 0]

\* Barrier::new(ACPI.lock().ap_count as usize + 1)
BarrierNew(ap_count) ==
    [constructed |-> 1, num_threads |-> ap_count + 1, count |-> 0,
     generation_id |-> 0]

\* sync_cores_barrier up to barrier.wait(): the first caller constructs the
\* barrier (Once::call_once).
SyncCoresBarrier(c) ==
    /\ At(c, "sync_cores_barrier")
    /\ SmpStep(mem, [smp EXCEPT
           !.SYNC_STARTUP_BARRIER =
               IF @.constructed = 0 THEN BarrierNew(smp.ap_count) ELSE @,
           !.cores[c].entered = @ + 1,
           !.cores[c].pc = "barrier_wait"])

\* spin::Barrier::wait under the barrier's lock: the last core of a round
\* resets the count, starts the next generation and is the leader; the others
\* remember the generation and spin.
barrier_wait_keeps_count(s, c) ==
    LET b == s.SYNC_STARTUP_BARRIER
    IN  IF b.count + 1 < b.num_threads
        THEN [s EXCEPT !.SYNC_STARTUP_BARRIER.count = @ + 1,
                       !.cores[c].local_gen = b.generation_id,
                       !.cores[c].pc = "barrier_spin"]
        ELSE Then([s EXCEPT !.SYNC_STARTUP_BARRIER.count = @ + 1,
                            !.SYNC_STARTUP_BARRIER.generation_id = @ + 1,
                            !.cores[c].led = @ \cup {s.cores[c].entered},
                            !.cores[c].returned = @ + 1],
                  LAMBDA t : Goto(t, c, AfterBarrier(t, c)))

barrier_wait(s, c) ==
    LET b == s.SYNC_STARTUP_BARRIER
    IN  IF b.count + 1 < b.num_threads
        THEN [s EXCEPT !.SYNC_STARTUP_BARRIER.count = @ + 1,
                       !.cores[c].local_gen = b.generation_id,
                       !.cores[c].pc = "barrier_spin"]
        ELSE Then([s EXCEPT !.SYNC_STARTUP_BARRIER.count = 0,
                            !.SYNC_STARTUP_BARRIER.generation_id = @ + 1,
                            !.cores[c].led = @ \cup {s.cores[c].entered},
                            !.cores[c].returned = @ + 1],
                  LAMBDA t : Goto(t, c, AfterBarrier(t, c)))

BarrierWait(c) ==
    /\ At(c, "barrier_wait")
    /\ SmpStep(mem, barrier_wait(smp, c))

\* spin::Barrier::wait: a spinning core sees the next generation (or a full
\* count) and returns.
BarrierSpinReturns(c) ==
    /\ At(c, "barrier_spin")
    /\ ~(/\ smp.cores[c].local_gen = smp.SYNC_STARTUP_BARRIER.generation_id
         /\ smp.SYNC_STARTUP_BARRIER.count < smp.SYNC_STARTUP_BARRIER.num_threads)
    /\ SmpStep(mem, Then([smp EXCEPT !.cores[c].returned = @ + 1],
                         LAMBDA t : Goto(t, c, AfterBarrier(t, c))))

\* common_main::main, or bsp_test_main / ap_test_main in a test build.
EnterMain(c) ==
    /\ At(c, "main")
    /\ SmpStep(mem, Goto(smp, c, "in_main"))

InitSmp ==
    /\ \E n \in {NFrames, NSpaceFrames} : MemoryInit(n)
    /\ RamDiskUnused /\ LoaderUnused /\ TimersUnused /\ ConUnused /\ MemLockUnused
    /\ HeapUnused /\ BootUnused
    /\ \E ap_count \in 0 .. MaxAps, l4_addr \in L4Addresses :
           smp = SmpPowerOn(ap_count, l4_addr)

NextSmp ==
    \/ BspInitGdt
    \/ \E c \in SmpCores : InitializeOwnCoreLocalData(c)
    \/ \E c \in SmpCores : ApicInit(c)
    \/ \E c \in SmpCores, t \in SmpTicksIn50ms :
           ApicInitTimerFinish(c, sub_from_u32_max(t))
    \/ BspAllocateStacks
    \/ BspAssL4
    \/ BspMapTrampoline
    \/ BspCopyTrampoline
    \/ BspSendInit
    \/ BspDelay("delay_10_000", 10000, "send_startup")
    \/ BspSendStartup("send_startup", "delay_200")
    \/ BspDelay("delay_200", 200, "send_startup_again")
    \/ BspSendStartup("send_startup_again", "wait_for_aps")
    \/ BspStartWaiting
    \/ BspSpinCheck
    \/ BspSpinDecrement
    \/ BspUnmapTrampoline
    \/ BspCheckTimeOut
    \/ \E c \in SmpCores : EnableInterrupts(c)
    \/ \E c \in SmpCores : SyncCoresBarrier(c)
    \/ \E c \in SmpCores : BarrierWait(c)
    \/ \E c \in SmpCores : BarrierSpinReturns(c)
    \/ \E c \in Aps : ApTrampoline(c)
    \/ \E c \in Aps : ApEntry(c)
    \/ \E c \in Aps : ApInitGdt(c)
    \/ \E c \in SmpCores : EnterMain(c)

SpecSmp == InitSmp /\ [][NextSmp]_vars

\* The cores run on their own: a core that can take a step of the barrier
\* takes it, and the PIT's 50 ms of a calibration run out.
SpecSmpFair ==
    /\ SpecSmp
    /\ \A c \in 0 .. MaxAps :
           /\ WF_vars(BarrierWait(c)) /\ WF_vars(BarrierSpinReturns(c))
           /\ WF_vars(\E t \in SmpTicksIn50ms :
                          ApicInitTimerFinish(c, sub_from_u32_max(t)))

-----------------------------------------------------------------------------
\* The rounds of the barrier during start-up: every core calls
\* sync_cores_barrier twice.
BarrierRounds == 1 .. 2

\* The cores that saw is_leader() in round k.
LeadersOf(k) == {c \in SmpCores : k \in smp.cores[c].led}

AllEntered(k) == \A c \in SmpCores : smp.cores[c].entered >= k
AllReturned(k) == \A c \in SmpCores : smp.cores[c].returned >= k

C13_BarrierSafe ==
    /\ smp.SYNC_STARTUP_BARRIER.constructed <= 1
    /\ (\E c \in SmpCores : smp.cores[c].entered > 0) =>
           /\ smp.SYNC_STARTUP_BARRIER.constructed = 1
           /\ smp.SYNC_STARTUP_BARRIER.num_threads = smp.ap_count + 1
    /\ \A k \in BarrierRounds :
           /\ (\E c \in SmpCores : smp.cores[c].returned >= k) =>
                  /\ AllEntered(k)
                  /\ Cardinality(LeadersOf(k)) = 1
           /\ Cardinality(LeadersOf(k)) <= 1

(* C13: the barrier is constructed once, with width ap_count + 1; in every   *)
(* round k no core returns from its k-th sync_cores_barrier before all       *)
(* ap_count + 1 cores have entered their k-th call, exactly one core of the  *)
(* round sees the leader flag, and once all cores have entered the round all *)
(* of them return from it.                                                   *)
C13_Barrier ==
    /\ []C13_BarrierSafe
    /\ \A k \in BarrierRounds : AllEntered(k) ~> AllReturned(k)

\* Three cores have passed the barrier twice.
C13_Witness ==
    /\ smp.ap_count = 2
    /\ AllReturned(2)
    /\ \A k \in BarrierRounds : Cardinality(LeadersOf(k)) = 1

-----------------------------------------------------------------------------
\* init_smp has left its wait loop.
BspStoppedSpinning ==
    smp.cores[Bsp].pc \in {"unmap_trampoline", "check_time_out"}
    \/ smp.cores[Bsp].panic = "AP startup timed out"

(* C14: when the BSP stops spinning with all ap_count APs checked in,        *)
(* init_smp returns normally; it panics with the AP start-up timeout only if *)
(* fewer than ap_count APs had incremented the startup-done counter when the *)
(* BSP stopped spinning; with ap_count = 0 it does not wait at all.          *)
C14_TimeOutOnlyWhenApsMissing ==
    /\ smp.cores[Bsp].panic = "AP startup timed out" =>
           smp.cores[Bsp].loaded < smp.ap_count
    /\ (BspStoppedSpinning /\ smp.cores[Bsp].loaded >= smp.ap_count) =>
           smp.cores[Bsp].time_out > 0
    /\ (BspStoppedSpinning /\ smp.ap_count = 0) =>
           smp.cores[Bsp].time_out = SpinBudget

-----------------------------------------------------------------------------
(* terminal_out.rs, logging.rs, main.rs / tester.rs: what the cores print,   *)
(* and the panic handler.  A core runs kernel code that prints and logs; a   *)
(* fatal error (panic!, ass!, unwrap, an exception handler) can strike it    *)
(* wherever it is, with the locks it holds: nothing unwinds.                 *)

ConCores == {0, 1}

\* What Stdout offers: print, print_pixels, clear.
StdoutOps == {"print", "print_pixels", "clear"}

\* QemuExitCode::Failed and the port of exit_qemu.
QemuExitFailed == 17
QemuExitPort == 244

\* The steps of the panic handler, as it takes them.
PanicSteps(testing) ==
    <<"PANICKED_STOP_PRINTING", "panic_print", "serial">>
    \o (IF testing THEN <<"exit_qemu">> ELSE <<>>)

ConCoreStart ==
    [pc |-> "running", op |-> "none", stopped |-> FALSE, swap |-> FALSE,
     interrupts |-> TRUE, trail |-> <<>>, kept |-> {}]

ConPowerOn(testing, double_buffer) ==
    [testing |-> testing,
     DOUBLE_BUFFER |-> double_buffer,
     PANICKED_STOP_PRINTING |-> FALSE,
     TERM |-> NoIndex,
     SERIAL_WRITE_LOCK |-> NoIndex,
     PANIC_PRINT_LOCK |-> NoIndex,
     SWAP_LOCK |-> NoIndex,
     BACK_BUFFER_LOCK |-> NoIndex,
     cores |-> [c \in ConCores |-> ConCoreStart],
     front |-> {},
     back |-> {},
     serial |-> {},
     ports |-> {}]

ConStep(s) ==
    /\ con' = s
    /\ UNCHANGED <<memVars, rdVars, ldrVars, timerVars, smp, mlock, heap, boot>>

ConAt(c, pcs) == con.cores[c].pc \in pcs

\* The positions of kernel code outside the panic handler.
NormalPcs ==
    {"running", "stdout", "stdout_write", "stdout_done", "log_serial",
     "log_graphics", "push_term", "push_back_buffer", "push_interrupts",
     "push_swap", "push_copy", "push_done", "local_writer"}

InPanicHandler(c) == con.cores[c].pc \notin NormalPcs

\* Where the terminal writer of TERM draws: the frame buffer, or the back
\* buffer after switch_to_double_buffer.
TermDraws(s, w) ==
    IF s.DOUBLE_BUFFER THEN [s EXCEPT !.back = @ \cup {w}]
    ELSE [s EXCEPT !.front = @ \cup {w}]

\* Stdout::acquire(): TERM.lock(); also the graphics half of a log call.
StdoutAcquire(c, op) ==
    /\ ConAt(c, {"running", "log_graphics"})
    /\ con.TERM = NoIndex
    /\ ConStep([con EXCEPT !.TERM = c, !.cores[c].pc = "stdout",
                           !.cores[c].op = op,
                           !.cores[c].stopped = con.PANICKED_STOP_PRINTING])

\* Stdout::print / print_pixels / clear: the load of PANICKED_STOP_PRINTING.
stdout_starts(s, c) ==
    IF s.PANICKED_STOP_PRINTING
    THEN [s EXCEPT !.cores[c].pc = "stdout_done"]
    ELSE [s EXCEPT !.cores[c].pc = "stdout_write"]

StdoutStarts(c) ==
    /\ ConAt(c, {"stdout"})
    /\ ConStep(stdout_starts(con, c))

\* ... and the drawing of the inner TerminalWriter.
StdoutWrites(c) ==
    /\ ConAt(c, {"stdout_write"})
    /\ ConStep(TermDraws([con EXCEPT !.cores[c].pc = "stdout_done"],
                         [by |-> NoIndex, path |-> "Stdout",
                          stopped |-> con.cores[c].stopped]))

\* The Stdout value is dropped.
StdoutDrop(c) ==
    /\ ConAt(c, {"stdout_done"})
    /\ ConStep([con EXCEPT !.TERM = NoIndex, !.cores[c].pc = "running",
                           !.cores[c].op = "none",
                           !.cores[c].stopped = FALSE])

\* KernelLogger::log, serial half: SERIAL_WRITE_LOCK.lock()
LogSerialLock(c) ==
    /\ ConAt(c, {"running"})
    /\ con.SERIAL_WRITE_LOCK = NoIndex
    /\ ConStep([con EXCEPT !.SERIAL_WRITE_LOCK = c, !.cores[c].pc = "log_serial"])

\* ... serial_print!, and the guard is dropped.
LogSerialWrite(c) ==
    /\ ConAt(c, {"log_serial"})
    /\ ConStep([con EXCEPT !.serial = @ \cup {[by |-> NoIndex, what |-> "log"]},
                           !.SERIAL_WRITE_LOCK = NoIndex,
                           !.cores[c].pc = "log_graphics"])

\* switch_to_double_buffer: TERM gets the back buffer.
SwitchToDoubleBuffer(c) ==
    /\ ConAt(c, {"running"})
    /\ ~con.DOUBLE_BUFFER
    /\ con.TERM = NoIndex
    /\ ConStep([con EXCEPT !.DOUBLE_BUFFER = TRUE])

\* push_to_frame_buffer: the load of the flag, then TERM.lock().
push_to_frame_buffer_starts(s) ==
    IF s.PANICKED_STOP_PRINTING THEN "push_done" ELSE "push_term"

PushStarts(c) ==
    /\ ConAt(c, {"running"})
    /\ con.DOUBLE_BUFFER
    /\ ConStep([con EXCEPT !.cores[c].stopped = con.PANICKED_STOP_PRINTING,
                           !.cores[c].pc = push_to_frame_buffer_starts(con)])

PushLocksTerm(c) ==
    /\ ConAt(c, {"push_term"})
    /\ con.TERM = NoIndex
    /\ ConStep([con EXCEPT !.TERM = c, !.cores[c].pc = "push_back_buffer"])

\* ... BACK_BUFFER_LOCK.lock()
PushLocksBackBuffer(c) ==
    /\ ConAt(c, {"push_back_buffer"})
    /\ con.BACK_BUFFER_LOCK = NoIndex
    /\ ConStep([con EXCEPT !.BACK_BUFFER_LOCK = c,
                           !.cores[c].pc = "push_interrupts"])

\* ... interrupts::without_interrupts: the interrupt flag is cleared
PushDisablesInterrupts(c) ==
    /\ ConAt(c, {"push_interrupts"})
    /\ ConStep([con EXCEPT !.cores[c].interrupts = FALSE,
                           !.cores[c].pc = "push_swap"])

\* ... SWAP_LOCK.lock()
PushLocksSwap(c) ==
    /\ ConAt(c, {"push_swap"})
    /\ con.SWAP_LOCK = NoIndex
    /\ ConStep([con EXCEPT !.SWAP_LOCK = c, !.cores[c].pc = "push_copy"])

\* ... the copy of the back buffer to the front buffer; the guards are
\* dropped and the interrupt flag is set again.
PushCopies(c) ==
    /\ ConAt(c, {"push_copy"})
    /\ ConStep([con EXCEPT !.front = @ \cup {[by |-> NoIndex,
                                              path |-> "push_to_frame_buffer",
                                              stopped |-> con.cores[c].stopped]},
                           !.SWAP_LOCK = NoIndex,
                           !.cores[c].interrupts = TRUE,
                           !.BACK_BUFFER_LOCK = NoIndex, !.TERM = NoIndex,
                           !.cores[c].pc = "push_done"])

\* push_to_frame_buffer returns.
PushReturns(c) ==
    /\ ConAt(c, {"push_done"})
    /\ ConStep([con EXCEPT !.cores[c].pc = "running",
                           !.cores[c].stopped = FALSE])

\* common_main.rs: a core that draws with a TerminalWriter of its own takes
\* lock_back_buffer() = BACK_BUFFER_LOCK.lock() ...
LockBackBuffer(c) ==
    /\ ConAt(c, {"running"})
    /\ con.DOUBLE_BUFFER
    /\ con.BACK_BUFFER_LOCK = NoIndex
    /\ ConStep([con EXCEPT !.BACK_BUFFER_LOCK = c, !.cores[c].pc = "local_writer"])

\* ... local_writer.print draws into the back buffer, whatever the flag says,
\* and the guard is dropped.
LocalWriterPrints(c) ==
    /\ ConAt(c, {"local_writer"})
    /\ ConStep([con EXCEPT !.back = @ \cup {[by |-> NoIndex, path |-> "local_writer",
                                             stopped |-> con.PANICKED_STOP_PRINTING]},
                           !.BACK_BUFFER_LOCK = NoIndex,
                           !.cores[c].pc = "running"])

\* The locks core c holds.
LocksOf(s, c) ==
    {l \in {"TERM", "SERIAL_WRITE_LOCK", "SWAP_LOCK", "BACK_BUFFER_LOCK"} : s[l] = c}

\* A fatal error: the panic handler starts on the core, which keeps the
\* locks it holds.
FatalError(c) ==
    /\ ConAt(c, NormalPcs)
    /\ ConStep([con EXCEPT !.cores[c].pc = "panic_print",
                           !.cores[c].kept = LocksOf(con, c)])

\* panic_print: PANICKED_STOP_PRINTING.store(true)
PanicStopsPrinting(c) ==
    /\ ConAt(c, {"panic_print"})
    /\ ConStep([con EXCEPT !.PANICKED_STOP_PRINTING = TRUE,
                           !.cores[c].trail = Append(@, "PANICKED_STOP_PRINTING"),
                           !.cores[c].pc = "PANIC_PRINT_LOCK"])

\* panic_print: PANIC_PRINT_LOCK.lock()
PanicPrintLock(c) ==
    /\ ConAt(c, {"PANIC_PRINT_LOCK"})
    /\ con.PANIC_PRINT_LOCK = NoIndex
    /\ ConStep([con EXCEPT !.PANIC_PRINT_LOCK = c,
                           !.cores[c].pc = IF con.DOUBLE_BUFFER THEN "SWAP_LOCK"
                                           ELSE "TERM.try_lock"])

\* panic_print with a double buffer: SWAP_LOCK.try_lock() until it succeeds
\* or the budget is used up.
PanicTriesSwap(c, got) ==
    /\ ConAt(c, {"SWAP_LOCK"})
    /\ got => con.SWAP_LOCK = NoIndex
    /\ ~got => con.SWAP_LOCK # NoIndex
    /\ ConStep([con EXCEPT !.SWAP_LOCK = IF got THEN c ELSE @,
                           !.cores[c].swap = got,
                           !.cores[c].pc = "EMERGENCY_PANIC_TERM"])

\* panic_print: the callback draws through EMERGENCY_PANIC_TERM, which has
\* the front buffer; the guards are dropped.
PanicDrawsEmergency(c) ==
    /\ ConAt(c, {"EMERGENCY_PANIC_TERM"})
    /\ ConStep([con EXCEPT
           !.front = @ \cup {[by |-> c, path |-> "EMERGENCY_PANIC_TERM",
                              stopped |-> TRUE]},
           !.SWAP_LOCK = IF con.cores[c].swap THEN NoIndex ELSE @,
           !.PANIC_PRINT_LOCK = NoIndex,
           !.cores[c].swap = FALSE,
           !.cores[c].trail = Append(@, "panic_print"),
           !.cores[c].pc = "log::error"])

\* panic_print without a double buffer: TERM.try_lock(), and the callback
\* draws through TERM or, when TERM is taken, through EMERGENCY_PANIC_TERM.
PanicDrawsWithoutDoubleBuffer(c) ==
    /\ ConAt(c, {"TERM.try_lock"})
    /\ LET s == [con EXCEPT !.PANIC_PRINT_LOCK = NoIndex,
                            !.cores[c].trail = Append(@, "panic_print"),
                            !.cores[c].pc = "log::error"]
       IN  IF con.TERM = NoIndex
           THEN ConStep(TermDraws(s, [by |-> c, path |-> "TERM",
                                      stopped |-> TRUE]))
           ELSE ConStep([s EXCEPT !.front = @ \cup
                            {[by |-> c, path |-> "EMERGENCY_PANIC_TERM",
                              stopped |-> TRUE]}])

\* log::error!: SERIAL_WRITE_LOCK.lock()
PanicLogLocksSerial(c) ==
    /\ ConAt(c, {"log::error"})
    /\ con.SERIAL_WRITE_LOCK = NoIndex
    /\ ConStep([con EXCEPT !.SERIAL_WRITE_LOCK = c,
                           !.cores[c].pc = "log::error serial"])

\* ... serial_print!, and the guard is dropped.
PanicLogWritesSerial(c) ==
    /\ ConAt(c, {"log::error serial"})
    /\ ConStep([con EXCEPT !.serial = @ \cup {[by |-> c, what |-> "panic"]},
                           !.SERIAL_WRITE_LOCK = NoIndex,
                           !.cores[c].trail = Append(@, "serial"),
                           !.cores[c].pc = "log::error graphics"])

\* ... Stdout::acquire(): TERM.lock()
PanicLogLocksTerm(c) ==
    /\ ConAt(c, {"log::error graphics"})
    /\ con.TERM = NoIndex
    /\ ConStep([con EXCEPT !.TERM = c, !.cores[c].pc = "log::error print"])

\* ... the prints of the log line see the flag; the Stdout value is dropped.
PanicLogPrints(c) ==
    /\ ConAt(c, {"log::error print"})
    /\ LET s == stdout_starts([con EXCEPT !.cores[c].op = "print"], c)
       IN  ConStep([(IF s.cores[c].pc = "stdout_write"
                     THEN TermDraws(s, [by |-> c, path |-> "Stdout",
                                        stopped |-> TRUE])
                     ELSE s)
                    EXCEPT !.TERM = NoIndex,
                           !.cores[c].op = "none",
                           !.cores[c].pc = IF con.testing THEN "exit_qemu"
                                           ELSE "loop"])

\* tester.rs: exit_qemu(QemuExitCode::Failed)
PanicExitsQemu(c) ==
    /\ ConAt(c, {"exit_qemu"})
    /\ ConStep([con EXCEPT !.ports = @ \cup {[by |-> c, port |-> QemuExitPort,
                                              value |-> QemuExitFailed]},
                           !.cores[c].trail = Append(@, "exit_qemu"),
                           !.cores[c].pc = "loop"])

InitPanic ==
    /\ MemoryInit(NFrames) /\ RamDiskUnused /\ LoaderUnused /\ TimersUnused
    /\ SmpUnused /\ MemLockUnused /\ HeapUnused /\ BootUnused
    /\ \E testing \in BOOLEAN, double_buffer \in BOOLEAN :
           con = ConPowerOn(testing, double_buffer)

\* The steps of the panic handler on core c.
PanicHandlerStep(c) ==
    \/ PanicStopsPrinting(c)
    \/ PanicPrintLock(c)
    \/ \E got \in BOOLEAN : PanicTriesSwap(c, got)
    \/ PanicDrawsEmergency(c)
    \/ PanicDrawsWithoutDoubleBuffer(c)
    \/ PanicLogLocksSerial(c)
    \/ PanicLogWritesSerial(c)
    \/ PanicLogLocksTerm(c)
    \/ PanicLogPrints(c)
    \/ PanicExitsQemu(c)

\* The steps of kernel code on core c that wait for nothing.
KernelCodeContinues(c) ==
    \/ StdoutStarts(c)
    \/ StdoutWrites(c)
    \/ StdoutDrop(c)
    \/ LogSerialWrite(c)
    \/ PushDisablesInterrupts(c)
    \/ LocalWriterPrints(c)
    \/ PushCopies(c)
    \/ PushReturns(c)

NextPanic ==
    \/ \E c \in ConCores, op \in StdoutOps : StdoutAcquire(c, op)
    \/ \E c \in ConCores : LogSerialLock(c)
    \/ \E c \in ConCores : SwitchToDoubleBuffer(c)
    \/ \E c \in ConCores : PushStarts(c)
    \/ \E c \in ConCores : PushLocksTerm(c)
    \/ \E c \in ConCores : PushLocksBackBuffer(c)
    \/ \E c \in ConCores : PushLocksSwap(c)
    \/ \E c \in ConCores : LockBackBuffer(c)
    \/ \E c \in ConCores : KernelCodeContinues(c)
    \/ \E c \in ConCores : FatalError(c)
    \/ \E c \in ConCores : PanicHandlerStep(c)

SpecPanic == InitPanic /\ [][NextPanic]_vars

\* The cores run on: a core that can take a step takes it, and a panic
\* handler gets a lock that is free again and again.
SpecPanicFair ==
    /\ SpecPanic
    /\ \A c \in ConCores :
           /\ WF_vars(KernelCodeContinues(c))
           /\ WF_vars(PushLocksBackBuffer(c))
           /\ WF_vars(PushLocksSwap(c))
           /\ SF_vars(PanicHandlerStep(c))


\* The panic handler of core c has taken this step.
Taken(c, step) ==
    \E i \in 1 .. Len(con.cores[c].trail) : con.cores[c].trail[i] = step

\* The panic handler of core c has taken its steps in the order of the
\* handler, and the flag, the serial port and the exit port show them.
PanicStepsInOrder(c) ==
    LET trail == con.cores[c].trail
        steps == PanicSteps(con.testing)
    IN  /\ Len(trail) <= Len(steps)
        /\ trail = SubSeq(steps, 1, Len(trail))
        /\ Taken(c, "PANICKED_STOP_PRINTING") => con.PANICKED_STOP_PRINTING
        /\ Taken(c, "serial") => [by |-> c, what |-> "panic"] \in con.serial
        /\ Taken(c, "exit_qemu") =>
               [by |-> c, port |-> QemuExitPort, value |-> QemuExitFailed]
                   \in con.ports
        /\ ConAt(c, {"loop"}) => trail = steps
        /\ ~con.testing => \A w \in con.ports : w.by # c

\* The message of core c is on the front buffer, drawn through the emergency
\* terminal when there is a double buffer.
RenderedToFront(c) ==
    Taken(c, "panic_print") =>
        /\ \E w \in con.front : w.by = c
        /\ con.DOUBLE_BUFFER =>
               \E w \in con.front : w.by = c /\ w.path = "EMERGENCY_PANIC_TERM"
        /\ \A w \in con.back : w.by # c

\* The message of core c has been drawn: on the front buffer, or through
\* TERM on the back buffer that TERM got while the handler ran.
RenderedSomewhere(c) ==
    Taken(c, "panic_print") =>
        \/ \E w \in con.front : w.by = c
        \/ /\ con.DOUBLE_BUFFER
           /\ \E w \in con.back : w.by = c /\ w.path = "TERM"

\* No print, clear or swap of kernel code that started with the flag set has
\* written anything.
NothingWrittenAfterStop ==
    \A w \in con.front \cup con.back : w.by = NoIndex => ~w.stopped

PanicStepsSafe ==
    /\ NothingWrittenAfterStop
    /\ \A c \in ConCores : PanicStepsInOrder(c) /\ RenderedSomewhere(c)

C15_PanicSafe ==
    /\ NothingWrittenAfterStop
    /\ \A c \in ConCores : PanicStepsInOrder(c) /\ RenderedToFront(c)

PanicNeverReturns ==
    [][\A c \in ConCores : InPanicHandler(c) => InPanicHandler(c)']_vars

\* Nobody has entered the panic handler with a lock in its hands.
NoLockKept == \A c \in ConCores : con.cores[c].kept = {}

PanicEndsWithFreeHands ==
    \A c \in ConCores :
        (InPanicHandler(c) /\ NoLockKept) ~> (ConAt(c, {"loop"}) \/ ~NoLockKept)

\* C15: every fatal error reaches the panic handler, which (a) sets the
\* stop-printing flag, after which no print, clear or swap of kernel code that
\* starts writes anything, (b) renders the message to the front buffer,
\* through the emergency terminal when double buffering is on, (c) logs the
\* message to the serial port, (d) in test mode writes 0x11 to port 0xF4, in
\* this order, every step of it, and never returns to the interrupted code.
C15_PanicPath ==
    /\ []C15_PanicSafe
    /\ PanicNeverReturns
    /\ \A c \in ConCores : InPanicHandler(c) ~> ConAt(c, {"loop"})

-----------------------------------------------------------------------------
(* MEMORY: Mutex<Memory>.  Several cores call the operations of Memory, each *)
(* through MEMORY.lock(); allocate_frame and unmap_ram are taken apart into  *)
(* their loads and stores, so that the lock is what keeps them whole.        *)

MemCores == {0, 1}
NLockFrames == 9

LockPages == {USER_STACK_START, KERNEL_HEAP_START}

MemOpIdle == [pc |-> "idle", page |-> <<>>, node |-> NoFrame, next |-> <<>>,
              frame |-> NoFrame]

MemLockPowerOn == [holder |-> NoIndex, ops |-> [c \in MemCores |-> MemOpIdle]]

MemStep(m, l) ==
    /\ mem' = m
    /\ mlock' = l
    /\ hist' = NoHist
    /\ UNCHANGED <<user_tables, held, written, rdVars, ldrVars, timerVars, smp, con,
                   heap, boot>>

MemAt(c, pc) == mlock.ops[c].pc = pc

\* MEMORY.lock() without the wait.
MemoryLockIgnored == TRUE

\* MEMORY.lock() returns when nobody holds the guard.
MemoryLockFree == mlock.holder = NoIndex

\* A core calls MEMORY.lock(): map_ram_kernel / map_ram_user / unmap_ram.
MemoryLock(c, op, page) ==
    /\ Running
    /\ MemAt(c, "idle")
    /\ MemoryLockFree
    /\ MemStep(mem, [mlock EXCEPT !.holder = c,
                                  !.ops[c].pc = op,
                                  !.ops[c].page = page])

\* map_ram_kernel / map_ram_user: the range assertion, then allocate_frame
\* reads free_memory_head; None is "Out of memory".
AllocateFrameReadsHead(c) ==
    /\ Running
    /\ mlock.ops[c].pc \in {"map_ram_kernel", "map_ram_user"}
    /\ IF (MemAt(c, "map_ram_kernel") /\ ~InKernelRange(mlock.ops[c].page))
          \/ (MemAt(c, "map_ram_user") /\ ~InUserRange(mlock.ops[c].page))
       THEN MemStep(Panic(mem, "Assertion failed"), mlock)
       ELSE IF mem.free_list = <<>>
       THEN MemStep(Panic(mem, "Out of memory"), mlock)
       ELSE MemStep(mem, [mlock EXCEPT !.ops[c].node = Head(mem.free_list),
                                       !.ops[c].next = Tail(mem.free_list),
                                       !.ops[c].pc = "allocate_frame"])

\* allocate_frame: free_frames -= 1; free_memory_head = (*node).next; the
\* frame of the node is returned.
AllocateFrameUnlinks(c) ==
    /\ Running
    /\ MemAt(c, "allocate_frame")
    /\ MemStep([mem EXCEPT !.free_frames = @ - 1,
                           !.free_list = mlock.ops[c].next,
                           !.handed_out = @ \cup {mlock.ops[c].node}],
               [mlock EXCEPT !.ops[c].frame = mlock.ops[c].node,
                             !.ops[c].node = NoFrame,
                             !.ops[c].next = <<>>,
                             !.ops[c].pc = "map_frame"])

\* map_ram_kernel / map_ram_user: map_frame, and the guard is dropped.
MapFrameAndUnlock(c) ==
    /\ Running
    /\ MemAt(c, "map_frame")
    /\ LET flags == IF InUserRange(mlock.ops[c].page)
                    THEN {"WRITABLE", "USER_ACCESSIBLE", "PRESENT"}
                    ELSE {"WRITABLE", "PRESENT"}
           m == map_frame(mem, c, mlock.ops[c].page, flags, mlock.ops[c].frame)
       IN  IF m.panic # None THEN MemStep(m, mlock)
           ELSE MemStep(m, [mlock EXCEPT
                    !.holder = IF mlock.holder = c THEN NoIndex ELSE @,
                    !.ops[c] = MemOpIdle])

\* unmap_ram: self.unmap(page)
UnmapRamUnmaps(c) ==
    /\ Running
    /\ MemAt(c, "unmap_ram")
    /\ LET r == unmap(mem, c, mlock.ops[c].page)
       IN  MemStep(r.m, [mlock EXCEPT !.ops[c].frame = r.frame,
                                      !.ops[c].pc = "deallocate_frame"])

\* unmap_ram: deallocate_frame(frame), and the guard is dropped.
DeallocateFrameAndUnlock(c) ==
    /\ Running
    /\ MemAt(c, "deallocate_frame")
    /\ MemStep(deallocate_frame(mem, mlock.ops[c].frame),
               [mlock EXCEPT !.holder = IF mlock.holder = c THEN NoIndex ELSE @,
                             !.ops[c] = MemOpIdle])

\* MEMORY.lock().create_user_page_table() and the switches: one statement
\* each, begun when the guard is free.
LockedCreateUserPageTable(c) ==
    /\ MemAt(c, "idle")
    /\ MemoryLockFree
    /\ CreateUserPageTable(c)

LockedSwitchToUserPageTable(c, t) ==
    /\ MemAt(c, "idle")
    /\ MemoryLockFree
    /\ SwitchToUserPageTable(c, t)

LockedSwitchToKernelPageTable(c) ==
    /\ MemAt(c, "idle")
    /\ MemoryLockFree
    /\ SwitchToKernelPageTable(c)

InitMemLock ==
    /\ mem = [MemoryNew(NLockFrames) EXCEPT !.cr3 = [c \in MemCores |-> BootL4Frame]]
    /\ user_tables = {}
    /\ held = {}
    /\ written = <<>>
    /\ hist = NoHist
    /\ RamDiskUnused /\ LoaderUnused /\ TimersUnused /\ SmpUnused /\ ConUnused
    /\ HeapUnused /\ BootUnused
    /\ mlock = MemLockPowerOn

NextMemLock ==
    \/ \E c \in MemCores, page \in LockPages :
           MemoryLock(c, IF InUserRange(page) THEN "map_ram_user"
                         ELSE "map_ram_kernel", page)
    \/ \E c \in MemCores, page \in LockPages : MemoryLock(c, "unmap_ram", page)
    \/ \E c \in MemCores : AllocateFrameReadsHead(c)
    \/ \E c \in MemCores : AllocateFrameUnlinks(c)
    \/ \E c \in MemCores : MapFrameAndUnlock(c)
    \/ \E c \in MemCores : UnmapRamUnmaps(c)
    \/ \E c \in MemCores : DeallocateFrameAndUnlock(c)
    \/ \E c \in MemCores : LockedCreateUserPageTable(c)
    \/ \E c \in MemCores, t \in Frames : LockedSwitchToUserPageTable(c, t)
    \/ \E c \in MemCores : LockedSwitchToKernelPageTable(c)

SpecMemLock == InitMemLock /\ [][NextMemLock]_vars


-----------------------------------------------------------------------------
(* Who has a frame: the free list, a caller of allocate_frame, a memory       *)
(* operation that is under way, a page table (the frame is the table), or    *)
(* the leaf entry of a page.                                                 *)

ManagedFrames == 1 .. mem.total_frames

\* The entries <<table, index>> that point to the frame.
RefsTo(f) ==
    {ti \in UNION {{<<t, i>> : i \in DOMAIN mem.tables[t]} : t \in DOMAIN mem.tables} :
        mem.tables[ti[1]][ti[2]].frame = f}

TargetsOf(ts) ==
    UNION {{mem.tables[t][i].frame : i \in DOMAIN mem.tables[t]} :
           t \in ts \cap DOMAIN mem.tables}

\* The tables by level: a top-level table is a table no entry points to.
L4Tables == {t \in DOMAIN mem.tables : RefsTo(t) = {}}
L3Tables == TargetsOf(L4Tables)
L2Tables == TargetsOf(L3Tables)
L1Tables == TargetsOf(L2Tables)

\* The page mappings that have the frame.
MappingsOf(f) == {ti \in RefsTo(f) : ti[1] \in L1Tables}

InFreeList(f) == \E k \in 1 .. Len(mem.free_list) : mem.free_list[k] = f

\* The cores whose memory operation has the frame in its hands.
InFlight(f) ==
    IF DOMAIN mlock = {} THEN {}
    ELSE {c \in DOMAIN mlock.ops : mlock.ops[c].frame = f}

Holders(f) ==
    Cardinality(MappingsOf(f))
    + Cardinality(InFlight(f))
    + (IF f \in DOMAIN mem.tables THEN 1 ELSE 0)
    + (IF f \in held THEN 1 ELSE 0)

\* The page tables form trees below the third level: the levels do not mix,
\* every table is a table of some level, and a table below the third level
\* hangs in one entry.
TablesWellFormed ==
    /\ DOMAIN mem.tables = L4Tables \cup L3Tables \cup L2Tables \cup L1Tables
    /\ \A a, b \in {<<4, L4Tables>>, <<3, L3Tables>>, <<2, L2Tables>>, <<1, L1Tables>>} :
           a[1] # b[1] => a[2] \cap b[2] = {}
    /\ \A t \in L2Tables \cup L1Tables : Cardinality(RefsTo(t)) = 1
    /\ \A f \in ManagedFrames : f \notin DOMAIN mem.tables => RefsTo(f) = MappingsOf(f)

\* C16: every frame of the allocator is either in the
\* free list (once) or has exactly one holder: a page mapping, a page table,
\* or the caller or memory operation that just took it; so allocate_frame,
\* which returns the head of the free list, never returns a frame that is
\* handed out, also when several cores map and unmap pages and create address
\* spaces at once, each under MEMORY.lock().
C16_FrameOwnership ==
    /\ TablesWellFormed
    /\ \A j, k \in 1 .. Len(mem.free_list) :
           mem.free_list[j] = mem.free_list[k] => j = k
    /\ Len(mem.free_list) = mem.free_frames
    /\ \A f \in ManagedFrames :
           /\ InFreeList(f) => Holders(f) = 0 /\ f \notin mem.handed_out
           /\ ~InFreeList(f) => Holders(f) = 1 /\ f \in mem.handed_out


\* Two cores in different address spaces, one with a page mapped and the
\* other in map_ram with the frame it took, a frame that was handed out
\* before the frame of that page and has come back since.
C16_Witness ==
    /\ Running
    /\ mem.cr3[0] # mem.cr3[1]
    /\ IsMapped(mem, mem.cr3[0], USER_STACK_START)
    /\ MemAt(0, "idle")
    /\ MemAt(1, "map_frame")
    /\ mlock.ops[1].frame < Translate(mem, mem.cr3[0], USER_STACK_START).frame

-----------------------------------------------------------------------------
\* The core has loaded its GDT and IDT, its slot of CORE_LOCAL is written and
\* its APIC timer is calibrated.
CoreInitialised(c) ==
    /\ smp.cores[c].gdt.table # "none"
    /\ smp.cores[c].idt
    /\ smp.CORE_LOCAL[c].init
    /\ smp.cores[c].apic.apic_timer_ticks_per_second # <<>>
    /\ smp.cores[c].apic.pc = "idle"

\* The core is about to call, or has called, common_main::main (the test
\* main in a test build).
AtApplicationEntry(c) == smp.cores[c].pc \in {"main", "in_main"}

\* C17: no core, BSP or AP, enters the application entry before every one of
\* the ap_count + 1 cores has installed its GDT and IDT, initialised its
\* per-core data slot and calibrated its APIC timer.
C17_MainAfterAllInitialised ==
    \A c \in SmpCores :
        AtApplicationEntry(c) => \A d \in SmpCores : CoreInitialised(d)

\* With two APs a core is in the application while another has just come
\* out of the second barrier.
C17_Witness ==
    /\ smp.ap_count = 2
    /\ \E c, d \in SmpCores :
           /\ c # d
           /\ smp.cores[c].pc = "in_main"
           /\ smp.cores[d].pc = "barrier_spin"
           /\ smp.cores[d].entered = 2

-----------------------------------------------------------------------------
\* The APs that have counted themselves in AP_STARTUP_DONE_COUNTER.
ApsCounted ==
    {c \in Aps : smp.cores[c].pc \notin
                     {"halted", "wait_for_sipi", "trampoline", "ap_entry_fn"}}

\* The timer of the core's APIC is calibrated.
Calibrated(c) ==
    /\ smp.cores[c].apic.apic_timer_ticks_per_second # <<>>
    /\ smp.cores[c].apic.pc = "idle"

\* The steps of ap_entry_fn that the AP has behind it, by its position up to
\* its first call of sync_cores_barrier.
ApStepsDone(c) ==
    LET order == <<"ap_entry_fn", "init_gdt_and_exceptions_ap",
                   "initialize_own_core_local_data", "apic_init", "init_timer",
                   "enable_interrupts", "sync_cores_barrier">>
        at == {k \in 1 .. Len(order) : order[k] = smp.cores[c].pc}
    IN  IF at = {} \/ smp.cores[c].entered > 0 THEN NoIndex
        ELSE (CHOOSE k \in at : TRUE) - 1

\* C18: on every AP the entry function first counts the AP in, then installs
\* GDT and IDT with the TSS of the AP's own ap_index, then the per-core data
\* under the AP's APIC ID with cpu_index = ap_index + 1, then initialises the
\* APIC and calibrates its timer, then enables interrupts, then waits on the
\* barrier of ap_count + 1 cores; so no core has interrupts enabled before
\* its IDT and per-core data are installed and its timer is calibrated.
C18_ApEntryOrder ==
    /\ smp.AP_STARTUP_DONE_COUNTER = Cardinality(ApsCounted)
    /\ \A c \in Aps :
           LET core == smp.cores[c]
               done == ApStepsDone(c)
           IN  /\ core.idt =>
                      /\ c \in ApsCounted
                      /\ core.gdt = [table |-> "AP_GDT", index |-> core.ap_index]
                      /\ core.tss = [table |-> "AP_TSS", index |-> core.ap_index]
               /\ smp.CORE_LOCAL[c].init =>
                      /\ core.idt
                      /\ smp.CORE_LOCAL[c].cpu_index = core.ap_index + 1
               /\ core.apic # ApicPowerOn(FALSE) => smp.CORE_LOCAL[c].init
               /\ core.interrupts => Calibrated(c)
               /\ core.entered > 0 =>
                      /\ core.interrupts
                      /\ smp.SYNC_STARTUP_BARRIER.num_threads = smp.ap_count + 1
               /\ done # NoIndex =>
                      /\ c \in ApsCounted <=> done >= 1
                      /\ core.idt <=> done >= 2
                      /\ smp.CORE_LOCAL[c].init <=> done >= 3
                      /\ core.apic # ApicPowerOn(FALSE) <=> done >= 4
                      /\ Calibrated(c) <=> done >= 5
                      /\ core.interrupts <=> done >= 6
    /\ \A c \in SmpCores :
           smp.cores[c].interrupts =>
               smp.cores[c].idt /\ smp.CORE_LOCAL[c].init /\ Calibrated(c)

\* The AP with ap_index 1 has enabled interrupts and waits on the barrier.
C18_Witness ==
    \E c \in Aps :
        /\ smp.cores[c].ap_index = 1
        /\ smp.cores[c].pc = "barrier_spin"
        /\ smp.cores[c].interrupts
        /\ smp.cores[c].tss = [table |-> "AP_TSS", index |-> 1]
        /\ smp.CORE_LOCAL[c].cpu_index = 2

-----------------------------------------------------------------------------
\* The APs that have taken an index from AP_CORE_COUNTER.
ApsIndexed == {c \in Aps : smp.cores[c].ap_index # NoIndex}

\* The stack of the AP with index i, as offsets from KERNEL_AP_STACKS, and
\* the guard page below it.
ApStackRegion(i) ==
    (i * calc_stack_stride + 4096) .. ((i + 1) * calc_stack_stride - 1)

ApGuardPage(i) == ApStackWindowPage(i * calc_stack_stride)

ApStackPages(i) ==
    {ApStackWindowPage(i * calc_stack_stride + 4096 * k) : k \in 1 .. KernelStackPages}

\* C19: each AP gets from AP_CORE_COUNTER an index no other AP gets, the
\* indices handed out are 0, 1, .. without a gap and all of 0 .. ap_count - 1
\* once every AP has one; the stack pointer of the AP with index i lies in
\* [KERNEL_AP_STACKS + i * stride + 4096, KERNEL_AP_STACKS + (i + 1) * stride),
\* every page of that region is mapped and the page below it is not; no two
\* APs have the same stack, TSS or cpu_index, and no AP has cpu_index 0.
C19_ApIndexStackUnique ==
    /\ {smp.cores[c].ap_index : c \in ApsIndexed} = 0 .. (smp.AP_CORE_COUNTER - 1)
    /\ smp.AP_CORE_COUNTER = Cardinality(ApsIndexed)
    /\ smp.AP_CORE_COUNTER <= smp.ap_count
    /\ \A c \in ApsIndexed :
           LET i == smp.cores[c].ap_index
           IN  /\ smp.cores[c].rsp \in ApStackRegion(i)
               /\ \A p \in ApStackPages(i) :
                      /\ IsMapped(mem, mem.cr3[Bsp], p)
                      /\ "WRITABLE" \in Translate(mem, mem.cr3[Bsp], p).flags
               /\ ~IsMapped(mem, mem.cr3[Bsp], ApGuardPage(i))
               /\ smp.cores[c].cr3 = SubSeq(smp.l4_page_table_phys_addr, 1, 4)
               /\ FitsIn[smp.l4_page_table_phys_addr, 4]
               /\ smp.CORE_LOCAL[c].init => smp.CORE_LOCAL[c].cpu_index >= 1
    /\ \A c, d \in ApsIndexed :
           c # d =>
               /\ smp.cores[c].ap_index # smp.cores[d].ap_index
               /\ ApStackRegion(smp.cores[c].ap_index)
                      \cap ApStackRegion(smp.cores[d].ap_index) = {}
               /\ {Translate(mem, mem.cr3[Bsp], p).frame :
                       p \in ApStackPages(smp.cores[c].ap_index)}
                   \cap {Translate(mem, mem.cr3[Bsp], p).frame :
                            p \in ApStackPages(smp.cores[d].ap_index)} = {}
               /\ (smp.cores[c].idt /\ smp.cores[d].idt) =>
                      smp.cores[c].tss # smp.cores[d].tss
               /\ (smp.CORE_LOCAL[c].init /\ smp.CORE_LOCAL[d].init) =>
                      smp.CORE_LOCAL[c].cpu_index # smp.CORE_LOCAL[d].cpu_index
    /\ \A c \in Aps : smp.cores[c].idt => smp.cores[c].tss # smp.cores[Bsp].tss

\* Two APs run on their stacks with their per-core data installed.
C19_Witness ==
    /\ smp.ap_count = 2
    /\ ApsIndexed = Aps
    /\ \A c \in Aps : smp.CORE_LOCAL[c].init /\ smp.cores[c].idt
    /\ {smp.CORE_LOCAL[c].cpu_index : c \in Aps} = {1, 2}

-----------------------------------------------------------------------------
\* What startup_aps does, in its order.
StartupSequence ==
    <<[ev |-> "ipi", cmd |-> create_send_init_cmd, us |-> 0],
      [ev |-> "delay", cmd |-> <<>>, us |-> 10000],
      [ev |-> "ipi", cmd |-> create_startup_cmd(0), us |-> 0],
      [ev |-> "delay", cmd |-> <<>>, us |-> 200],
      [ev |-> "ipi", cmd |-> create_startup_cmd(0), us |-> 0]>>

\* The stacks of all APs are mapped.
ApStacksMapped ==
    \A i \in 0 .. (smp.ap_count - 1) :
        \A p \in ApStackPages(i) : IsMapped(mem, mem.cr3[Bsp], p)

\* The blob lies at physical address 0 with its five parameters.
TrampolineReady ==
    /\ smp.low.code
    /\ DOMAIN smp.low.params =
           {ParamL4PageTable, ParamCoreCounter, ParamStackStride, ParamStackBase,
            ParamEntryFunction}
    /\ smp.low.params[ParamL4PageTable] = smp.l4_page_table_phys_addr
    /\ smp.low.params[ParamCoreCounter] = "AP_CORE_COUNTER"
    /\ smp.low.params[ParamStackStride] = (KernelStackPages + 1) * 4096
    /\ smp.low.params[ParamStackBase] = (KernelStackPages + 1) * 4096 - 1
    /\ smp.low.params[ParamEntryFunction] = "ap_entry_fn"

\* C20: the BSP sends the INIT IPI to all cores but itself, waits 10 ms,
\* sends the SIPI, waits 200 microseconds and sends the SIPI again, in this
\* order and nothing else; the first of them is sent only after the AP stacks
\* are mapped, the trampoline is copied to physical address 0 and its five
\* parameters are written; no IPI is sent when the address of the top-level
\* table does not fit in 32 bits.
C20_StartupOrder ==
    /\ Len(smp.events) <= Len(StartupSequence)
    /\ smp.events = SubSeq(StartupSequence, 1, Len(smp.events))
    /\ StartupSequence[1].cmd.delivery_mode = 5
    /\ StartupSequence[1].cmd.destination_type = 3
    /\ StartupSequence[3].cmd.delivery_mode = 6
    /\ smp.events # <<>> => ApStacksMapped /\ TrampolineReady
    /\ ~FitsIn[smp.l4_page_table_phys_addr, 4] => smp.events = <<>>
    /\ \A c \in Aps : smp.cores[c].pc # "halted" => smp.events # <<>>

\* The whole sequence has been sent to two APs.
C20_Witness ==
    /\ smp.ap_count = 2
    /\ smp.events = StartupSequence
    /\ \A c \in Aps : smp.cores[c].ap_index # NoIndex

-----------------------------------------------------------------------------
\* init_smp has copied the trampoline and taken page 0 out of the kernel
\* address space again.
TrampolinePageRemoved ==
    smp.low.code /\ ~IsMapped(mem, mem.cr3[Bsp], TrampolinePage)

\* An AP that has not left the trampoline: it has not been started, waits for
\* its start-up interrupt, or runs the code in page 0.
InTrampoline(c) ==
    c \in Aps /\ smp.cores[c].pc \in {"halted", "wait_for_sipi", "trampoline"}

\* init_smp has returned to kernel_main.
InitSmpReturned ==
    /\ smp.low.code
    /\ smp.cores[Bsp].panic = None
    /\ smp.cores[Bsp].pc \notin {"send_init", "delay_10_000", "send_startup",
                                 "delay_200", "send_startup_again", "wait_for_aps",
                                 "spin_check", "spin_decrement", "unmap_trampoline",
                                 "check_time_out"}

\* Once init_smp has returned, page 0 is unmapped in the kernel address space.
TrampolinePageUnmappedAfterInitSmp ==
    InitSmpReturned => ~IsMapped(mem, mem.cr3[Bsp], TrampolinePage)

(* C21: the identity mapping of virtual page 0 is removed only after all     *)
(* ap_count APs have incremented the startup-done counter, never while an AP *)
(* may still execute trampoline code, and after init_smp has finished page 0 *)
(* is unmapped in the kernel address space.                                  *)
C21_TrampolinePageLifetime ==
    /\ TrampolinePageRemoved =>
           /\ smp.AP_STARTUP_DONE_COUNTER >= smp.ap_count
           /\ \A c \in Aps : ~InTrampoline(c)
    /\ TrampolinePageUnmappedAfterInitSmp

-----------------------------------------------------------------------------
(* smp.rs (CORE_LOCAL), apic.rs (the APIC ID, the timer's vector), and       *)
(* interrupts.rs (timer_interrupt): the per-core data as every core reaches  *)
(* it through its APIC ID, and the timer interrupt that calls the per-core   *)
(* callback.  core_local is the array CORE_LOCAL, apic the local APICs, cpu  *)
(* the cores.                                                                *)

MaxInterrupts == 2

CldCores == {0, 1}

\* What the ID register of a local APIC reads: the ID is in bits 24 .. 31;
\* the hardware gives every core another ID.
ApicIdRegisters == {<<0, 0, 0, 0>>, <<0, 0, 0, 1>>, <<0, 0, 0, 255>>}

\* The values of cpu_index that are passed (0 on the BSP, ap_index + 1 on the first AP).
CpuIndexes == 0 .. 1

\* The ID taken from the low byte of the register.
id_without_shift(register) == register[1]

\* Apic::id: (self.read(Offset::Id) >> 24) as u8
id(register) == register[4]

NoCallback == [fn |-> "none", by |-> NoIndex]

\* OnceCell::new(): an empty slot.  used_by is history: the cores that have
\* reached the slot.
CORE_LOCAL_ENTRY_INIT ==
    [init |-> FALSE, cpu_index |-> 0, apic_timer_ticks_per_second |-> 0,
     apic_timer_interrupt_function |-> NoCallback, used_by |-> {}]

\* A core in kernel code.  first, last, got and irq are history: the cpu_index
\* of the core's first and latest initialisation, the slot its last access
\* reached, and for
\* every timer interrupt taken the callback that was set, the callbacks
\* invoked and the end-of-interrupt writes.
CldCoreStart ==
    [pc |-> "kernel", interrupts |-> FALSE, first |-> NoIndex, last |-> NoIndex,
     got |-> NoIndex,
     irq |-> <<>>, call |-> NoCallback, panic |-> None]

CldPowerOn(registers) ==
    [LOCAL_APIC_PTR |-> FALSE,
     regs |-> [c \in CldCores |-> [Id |-> registers[c], lvt_masked |-> TRUE]]]

CldStep(cl, a, k) ==
    /\ core_local' = cl
    /\ apic' = a
    /\ cpu' = k
    /\ UNCHANGED <<memVars, rdVars, resources, results, pit, smp, con, mlock, heap,
                   boot>>

CldAt(c, pc) == cpu[c].pc = pc

CldPanic(c, msg) == [cpu EXCEPT ![c].pc = "panicked", ![c].panic = msg]

\* get_apic().id() on core c: the slot the core's accesses go to.
OwnSlot(c) == id(apic.regs[c].Id)

\* The slot with the access of core c recorded.
Reached(cl, c) == [cl EXCEPT ![OwnSlot(c)].used_by = @ \cup {c}]

\* apic::create (main.rs 84, the BSP).
CldApicCreate ==
    /\ CldAt(0, "kernel")
    /\ ~apic.LOCAL_APIC_PTR
    /\ CldStep(core_local, [apic EXCEPT !.LOCAL_APIC_PTR = TRUE], cpu)

\* initialize_own_core_local_data: CORE_LOCAL[apic_id].get_or_init(..)
CldInitializeOwnCoreLocalData(c, cpu_index) ==
    /\ CldAt(c, "kernel")
    /\ IF ~apic.LOCAL_APIC_PTR
       THEN CldStep(core_local, apic, CldPanic(c, "APIC not initialized"))
       ELSE CldStep(Reached(IF core_local[OwnSlot(c)].init THEN core_local
                            ELSE [core_local EXCEPT
                                     ![OwnSlot(c)].init = TRUE,
                                     ![OwnSlot(c)].cpu_index = cpu_index], c),
                    apic,
                    [cpu EXCEPT ![c].first = IF @ = NoIndex THEN cpu_index ELSE @,
                                ![c].last = cpu_index,
                                ![c].got = OwnSlot(c)])

\* try_get_cld: None before apic::create and before the slot is filled.
CldTryGetCld(c) ==
    /\ cpu[c].pc \in {"kernel", "panicked"}
    /\ IF ~apic.LOCAL_APIC_PTR
       THEN CldStep(core_local, apic, [cpu EXCEPT ![c].got = NoIndex])
       ELSE CldStep(Reached(core_local, c), apic,
                    [cpu EXCEPT ![c].got = IF core_local[OwnSlot(c)].init
                                           THEN OwnSlot(c) ELSE NoIndex])

\* get_cld() of a caller in kernel code: the write through the reference.
CldGetCld(c, write(_), done) ==
    IF ~apic.LOCAL_APIC_PTR
    THEN CldStep(core_local, apic, CldPanic(c, "APIC not initialized"))
    ELSE IF ~core_local[OwnSlot(c)].init
    THEN CldStep(Reached(core_local, c), apic,
                 CldPanic(c, "core local data not initialized"))
    ELSE CldStep(Reached([core_local EXCEPT ![OwnSlot(c)] = write(@)], c), done,
                 [cpu EXCEPT ![c].got = OwnSlot(c)])

\* apic::init: init_timer stores the ticks per second through get_cld().
CldApicInit(c) ==
    /\ CldAt(c, "kernel")
    /\ CldGetCld(c, LAMBDA slot : [slot EXCEPT !.apic_timer_ticks_per_second = 20],
                 apic)

\* x86_64::instructions::interrupts::enable(): kernel_main and ap_entry_fn
\* call it after apic::init.
CldEnableInterrupts(c) ==
    /\ CldAt(c, "kernel")
    /\ ~cpu[c].interrupts
    /\ apic.LOCAL_APIC_PTR
    /\ core_local[OwnSlot(c)].apic_timer_ticks_per_second # 0
    /\ CldStep(core_local, apic, [cpu EXCEPT ![c].interrupts = TRUE])

\* start_timer: the callback is stored, the ticks are unwrapped, the timer's
\* vector is unmasked.
CldStartTimer(c, interrupt) ==
    /\ CldAt(c, "kernel")
    /\ IF apic.LOCAL_APIC_PTR /\ core_local[OwnSlot(c)].init
          /\ core_local[OwnSlot(c)].apic_timer_ticks_per_second = 0
       THEN CldStep(Reached([core_local EXCEPT
                                ![OwnSlot(c)].apic_timer_interrupt_function =
                                    [fn |-> interrupt, by |-> c]], c),
                    apic, CldPanic(c, "called Option::unwrap() on a None value"))
       ELSE CldGetCld(c, LAMBDA slot :
                          [slot EXCEPT !.apic_timer_interrupt_function =
                                           [fn |-> interrupt, by |-> c]],
                      [apic EXCEPT !.regs[c].lvt_masked = FALSE])

\* stop_timer: the timer's vector is masked.
CldStopTimer(c) ==
    /\ CldAt(c, "kernel")
    /\ apic.LOCAL_APIC_PTR
    /\ ~apic.regs[c].lvt_masked
    /\ CldStep(core_local, [apic EXCEPT !.regs[c].lvt_masked = TRUE], cpu)

\* What raises vector 32 on a core: its APIC timer once start_timer has
\* unmasked it, or another sender of the vector (the IDT entry serves every
\* interrupt with this number).
VectorSources == {"timer", "other"}

\* Vector 32 is delivered to core c through an interrupt gate, which clears
\* the interrupt flag.
CldTimerFires(c, source) ==
    /\ CldAt(c, "kernel")
    /\ cpu[c].interrupts
    /\ source = "timer" => ~apic.regs[c].lvt_masked
    /\ Len(cpu[c].irq) < MaxInterrupts
    /\ CldStep(core_local, apic,
               [cpu EXCEPT ![c].pc = "timer_interrupt",
                           ![c].interrupts = FALSE,
                           ![c].irq = Append(@,
                               [callback |-> core_local[OwnSlot(c)]
                                                 .apic_timer_interrupt_function,
                                invoked |-> <<>>, eoi |-> 0])])

\* timer_interrupt that acknowledges only after a callback.
timer_interrupt_without_callback_returns(callback) ==
    IF callback.fn # "none" THEN "callback" ELSE "kernel"

\* timer_interrupt: if let Some(callback) = .. { callback(); }
timer_interrupt(callback) ==
    IF callback.fn # "none" THEN "callback" ELSE "signal_end_of_interrupt"

\* timer_interrupt: get_cld().apic_timer_interrupt_function
CldTimerInterrupt(c) ==
    /\ CldAt(c, "timer_interrupt")
    /\ IF ~core_local[OwnSlot(c)].init
       THEN CldStep(Reached(core_local, c), apic,
                    CldPanic(c, "core local data not initialized"))
       ELSE LET callback == core_local[OwnSlot(c)].apic_timer_interrupt_function
                next == timer_interrupt(callback)
            IN  CldStep(Reached(core_local, c), apic,
                        [cpu EXCEPT ![c].pc = next,
                                    ![c].got = OwnSlot(c),
                                    ![c].interrupts = (next = "kernel"),
                                    ![c].call = callback])

\* callback()
CldCallback(c) ==
    /\ CldAt(c, "callback")
    /\ CldStep(core_local, apic,
               [cpu EXCEPT ![c].pc = "signal_end_of_interrupt",
                           ![c].irq[Len(cpu[c].irq)].invoked =
                               Append(@, cpu[c].call)])

\* get_apic().signal_end_of_interrupt(), and the return from the handler.
CldSignalEndOfInterrupt(c) ==
    /\ CldAt(c, "signal_end_of_interrupt")
    /\ CldStep(core_local, apic,
               [cpu EXCEPT ![c].pc = "kernel",
                           ![c].interrupts = TRUE,
                           ![c].irq[Len(cpu[c].irq)].eoi = @ + 1])

InitCoreLocal ==
    /\ MemoryInit(NFrames) /\ RamDiskUnused
    /\ resources = <<>> /\ results = <<>>
    /\ pit = <<>> /\ SmpUnused /\ ConUnused /\ MemLockUnused /\ HeapUnused /\ BootUnused
    /\ core_local = [i \in 0 .. MAX_CORES - 1 |-> CORE_LOCAL_ENTRY_INIT]
    /\ cpu = [c \in CldCores |-> CldCoreStart]
    /\ \E registers \in [CldCores -> ApicIdRegisters] :
           /\ \A c, d \in CldCores : registers[c][4] = registers[d][4] => c = d
           /\ apic = CldPowerOn(registers)

\* The cores reach their per-core data from kernel code.
NextCoreLocal ==
    \/ CldApicCreate
    \/ \E c \in CldCores, cpu_index \in CpuIndexes :
           CldInitializeOwnCoreLocalData(c, cpu_index)
    \/ \E c \in CldCores : CldTryGetCld(c)
    \/ \E c \in CldCores : CldApicInit(c)
    \/ \E c \in CldCores, interrupt \in TimerCallbacks : CldStartTimer(c, interrupt)
    \/ \E c \in CldCores : CldStopTimer(c)

SpecCoreLocal == InitCoreLocal /\ [][NextCoreLocal]_vars

\* The cores start as kernel_main and ap_entry_fn start them (cpu_index 0 on
\* the BSP, ap_index + 1 on the AP), run their timers and take the timers'
\* interrupts.
NextTimerInterrupt ==
    \/ CldApicCreate
    \/ \E c \in CldCores : CldInitializeOwnCoreLocalData(c, c)
    \/ \E c \in CldCores : CldApicInit(c)
    \/ \E c \in CldCores : CldEnableInterrupts(c)
    \/ \E c \in CldCores, interrupt \in TimerCallbacks : CldStartTimer(c, interrupt)
    \/ \E c \in CldCores : CldStopTimer(c)
    \/ \E c \in CldCores, source \in VectorSources : CldTimerFires(c, source)
    \/ \E c \in CldCores : CldTimerInterrupt(c)
    \/ \E c \in CldCores : CldCallback(c)
    \/ \E c \in CldCores : CldSignalEndOfInterrupt(c)

SpecTimerInterrupt == InitCoreLocal /\ [][NextTimerInterrupt]_vars

-----------------------------------------------------------------------------
\* The cores whose APIC ID is i.
CoresOfSlot(i) == {c \in CldCores : id(apic.regs[c].Id) = i}

(* C22: CORE_LOCAL is a fixed array of MAX_CORES (256) write-once slots      *)
(* indexed by APIC ID: initialize_own_core_local_data fills only the slot of *)
(* the calling core, a second initialisation leaves the first value in       *)
(* place, and get_cld / try_get_cld return the calling core's own slot, so   *)
(* no core reads or writes the slot of another core.                         *)
C22_OwnSlotOnly ==
    /\ DOMAIN core_local = 0 .. MAX_CORES - 1
    /\ MAX_CORES = 256
    /\ \A i \in DOMAIN core_local :
           /\ core_local[i].used_by \subseteq CoresOfSlot(i)
           /\ Cardinality(core_local[i].used_by) <= 1
           /\ core_local[i].init =>
                  \E c \in CoresOfSlot(i) :
                      /\ cpu[c].first # NoIndex
                      /\ core_local[i].cpu_index = cpu[c].first
    /\ \A c \in CldCores :
           /\ cpu[c].first # NoIndex => core_local[id(apic.regs[c].Id)].init
           /\ cpu[c].got \in {NoIndex, id(apic.regs[c].Id)}
           /\ cpu[c].got # NoIndex => core_local[cpu[c].got].init

\* Both cores have filled their slots (one of them slot 255), one core has
\* initialised a second time with another value, and both have come back to
\* their slots through get_cld.
C22_Witness ==
    /\ core_local[255].init /\ core_local[255].apic_timer_ticks_per_second # 0
    /\ \E i \in {0, 1} : core_local[i].init /\ core_local[i].cpu_index = 1
                         /\ core_local[i].apic_timer_interrupt_function.fn = "int"
    /\ core_local[255].cpu_index = 0
    /\ \E c \in CldCores : cpu[c].last # cpu[c].first
    /\ \A c \in CldCores : cpu[c].got # NoIndex /\ cpu[c].pc = "kernel"

\* A timer interrupt of core c that the handler has returned from.
Handled(c, k) ==
    k \in 1 .. Len(cpu[c].irq)
    /\ (k < Len(cpu[c].irq) \/ cpu[c].pc \in {"kernel", "panicked"})

(* C28: on every vector-32 interrupt the handler invokes the interrupted     *)
(* core's own timer callback exactly once if one is set and nothing          *)
(* otherwise, and afterwards signals end-of-interrupt exactly once, with or  *)
(* without a callback; a callback installed on one core is never invoked by  *)
(* the interrupt of another core.                                            *)
C28_TimerInterrupt ==
    \A c \in CldCores : \A k \in 1 .. Len(cpu[c].irq) :
        LET r == cpu[c].irq[k]
        IN  /\ \A j \in 1 .. Len(r.invoked) : r.invoked[j].by = c
            /\ Len(r.invoked) <= 1
            /\ r.eoi <= 1
            /\ r.eoi = 1 => r.invoked = (IF r.callback.fn = "none" THEN <<>>
                                         ELSE <<r.callback>>)
            /\ Handled(c, k) =>
                   /\ r.eoi = 1
                   /\ cpu[c].panic = None \/ cpu[c].pc = "panicked"
            /\ r.callback.fn # "none" => r.callback.by = c

\* Core 0 has taken an interrupt without a callback and one with a callback,
\* core 1 one with another callback than core 0's.
C28_Witness ==
    /\ Handled(0, 2) /\ Handled(1, 1)
    /\ cpu[0].irq[1].invoked # cpu[0].irq[2].invoked
    /\ cpu[0].irq[1].callback.fn = "none" /\ cpu[0].irq[1].eoi = 1
    /\ cpu[1].irq[1].invoked # <<>>
    /\ cpu[1].irq[1].invoked[1].fn # cpu[0].irq[2].callback.fn

-----------------------------------------------------------------------------
\* The number that the bytes a hold (below 2^31).
ValueOf[a \in Bytes] ==
    IF a = <<>> THEN 0 ELSE a[1] + 256 * ValueOf[Tail(a)]

\* Core c is between the load of the initial count 0xFFFF_FFFF and the read of
\* the current count.
Calibrating(c) == c \in SmpCores /\ smp.cores[c].pc = "init_timer"

\* At most one core calibrates, and it holds the lock.
CalibrationExclusive ==
    \A c, d \in SmpCores :
        Calibrating(c) /\ Calibrating(d) =>
            c = d /\ smp.AP_TIMER_INIT_LOCK = c
                  /\ smp.cores[c].apic.initial_count = U32_MAX

\* A calibrated core has stored (0xFFFF_FFFF - current) * 20, which is not 0.
CalibrationStored ==
    \A c \in SmpCores :
        Calibrated(c) =>
            \E elapsed \in SmpTicksIn50ms :
                /\ \A k \in 1 .. 4 :
                       elapsed[k] + smp.cores[c].apic.call.current_count[k] = 255
                /\ ValueOf[smp.cores[c].apic.apic_timer_ticks_per_second]
                       = 20 * ValueOf[elapsed]
                /\ ValueOf[smp.cores[c].apic.apic_timer_ticks_per_second] # 0
                /\ smp.CORE_LOCAL[c].init

\* init_timer has panicked on core c because the timer did not count.
CalibrationFailed(c) ==
    c \in SmpCores /\ smp.cores[c].panic = "apic timer initialization failed"

(* C23 as stated: calibration is serialized by one global lock, every core   *)
(* that starts calibration eventually finishes it, and it stores             *)
(* ticks_per_second = (0xFFFF_FFFF - current) * 20, which is non-zero, in    *)
(* its own per-core slot.                                                    *)
C23_CalibrationSerialized ==
    /\ [](CalibrationExclusive /\ CalibrationStored)
    /\ \A c \in 0 .. MaxAps : Calibrating(c) ~> (c \in SmpCores /\ Calibrated(c))

(* C23 amended: calibration is serialized by one global lock; every core     *)
(* that starts calibration eventually either finishes it, storing            *)
(* (0xFFFF_FFFF - current) * 20 in its own per-core slot, or, when the timer *)
(* counted nothing in the 50 ms, panics with the lock held; a stored value   *)
(* is never 0.                                                               *)
C23_CalibrationSerializedOrFailed ==
    /\ [](CalibrationExclusive /\ CalibrationStored)
    /\ \A c \in 0 .. MaxAps :
           Calibrating(c) ~> (c \in SmpCores
                              /\ (Calibrated(c) \/ CalibrationFailed(c)))
    /\ [](\A c \in SmpCores :
              CalibrationFailed(c) =>
                  /\ smp.cores[c].apic.call.current_count = U32_MAX
                  /\ smp.AP_TIMER_INIT_LOCK = c)

\* One AP calibrates while the BSP and the other AP have finished.
C23_Witness ==
    /\ smp.ap_count = 2
    /\ Calibrating(2) /\ Calibrated(1) /\ Calibrated(Bsp)
    /\ smp.AP_TIMER_INIT_LOCK = 2

-----------------------------------------------------------------------------
(* allocator.rs: the rescue callback of the kernel heap and of a user heap   *)
(* (LockedHeapWithRescue<38>), in u64 arithmetic.  A u64 is its eight bytes. *)
(* A build with overflow checks panics where a build without them wraps.     *)

\* Frames the machine has left for the heap.
MaxHeapPages == 8

\* Calls of the rescue callback in a run.
MaxRescues == 3

u64(n) == Pad[<<n % 256, (n \div 256) % 256, (n \div 65536) % 256, n \div 16777216>>, 8]

\* 2^k as a u64, k in 0 .. 63.
pow2(k) == [i \in 1 .. 8 |-> IF i = (k \div 8) + 1 THEN Pow2(k % 8) ELSE 0]

\* a + b without loss, in nine bytes.
wide_add[a \in Bytes, b \in Bytes] ==
    LET sum[k \in 1 .. 10, carry \in 0 .. 1] ==
            IF k = 10 THEN <<>>
            ELSE <<(Limb(a, k) + Limb(b, k) + carry) % 256>>
                     \o sum[k + 1, (Limb(a, k) + Limb(b, k) + carry) \div 256]
    IN  sum[1, 0]

\* u64::wrapping_sub: a - b modulo 2^64.
wrapping_sub[a \in Bytes, b \in Bytes] ==
    Pad[wide_add[wide_add[Pad[a, 8], [i \in 1 .. 8 |-> 255 - Limb(b, i)]], <<1>>], 8]

\* a < b for numbers of any length.
Less[a \in Bytes, b \in Bytes] ==
    \E k \in 1 .. 9 :
        /\ Limb(a, k) < Limb(b, k)
        /\ \A j \in (k + 1) .. 9 : Limb(a, j) = Limb(b, j)

\* u64::is_power_of_two
is_power_of_two(a) ==
    \E k \in 0 .. 63 : Pad[a, 8] = pow2(k)

\* u64::next_power_of_two: the smallest power of two that is at least a; none
\* below 2^64 exists above 2^63.
next_power_of_two(a) ==
    IF IsZero[a] THEN [value |-> pow2(0), overflow |-> FALSE]
    ELSE IF \E k \in 0 .. 63 : ~Less[pow2(k), a]
    THEN [value |-> pow2(CHOOSE k \in 0 .. 63 :
                            /\ ~Less[pow2(k), a]
                            /\ \A j \in 0 .. (k - 1) : Less[pow2(j), a]),
          overflow |-> FALSE]
    ELSE [value |-> u64(0), overflow |-> TRUE]

\* x86_64::align_up(addr, align) - addr for a power of two align.
AlignPadding(addr, align) ==
    LET k == CHOOSE j \in 0 .. 63 : align = pow2(j)
        rest == [i \in 1 .. 8 |->
                    IF i < (k \div 8) + 1 THEN addr[i]
                    ELSE IF i = (k \div 8) + 1 THEN addr[i] % Pow2(k % 8)
                    ELSE 0]
    IN  IF IsZero[rest] THEN u64(0) ELSE wrapping_sub[align, rest]

\* VirtAddr::new accepts canonical addresses only.
Canonical(a) ==
    \/ a[7] = 0 /\ a[8] = 0 /\ a[6] < 128
    \/ a[7] = 255 /\ a[8] = 255 /\ a[6] >= 128

\* The start address of the page that holds a.
PageStart(a) == [a EXCEPT ![1] = 0, ![2] = a[2] - (a[2] % 16)]

\* v::KERNEL_HEAP_START = build_addr(108, 0, 0, 0, 0) and
\* v::USER_HEAP_START = build_addr(0, 8, 0, 0, 0).
HeapStart(kind) ==
    IF kind = "kernel" THEN <<0, 0, 0, 0, 0, 54, 0, 0>> ELSE <<0, 0, 0, 0, 2, 0, 0, 0>>

\* A heap that LockedHeapWithRescue::new has made: empty.  frames_free is what
\* the frame allocator can still give; growths and last are history: the
\* page ranges of the growths, and the last call of the rescue callback.
HeapNew(kind, overflow_checks) ==
    [kind |-> kind,
     overflow_checks |-> overflow_checks,
     stats_total_bytes |-> u64(0),
     frames_free |-> MaxHeapPages,
     rescues |-> 0,
     growths |-> <<>>,
     last |-> [op |-> "none"],
     panic |-> None]

\* The outcome of an operation that overflows u64: a panic in a build with
\* overflow checks, the wrapped value in a build without.
Checked(h, wide, msg) ==
    IF FitsIn[wide, 8] \/ ~h.overflow_checks
    THEN [value |-> Pad[wide, 8], panic |-> None]
    ELSE [value |-> Pad[wide, 8], panic |-> msg]

\* The sizes of the rescue callback: min_size_to_add, new_total_size and
\* new_added_size for the failed layout.
growth(h, layout) ==
    LET old_size == h.stats_total_bytes
        needed == Checked(h, wide_add[AlignPadding(old_size, layout.align),
                                      layout.size],
                          "attempt to add with overflow")
        rounded == next_power_of_two(needed.value)
        min_size_to_add == rounded.value
        sum == Checked(h, wide_add[min_size_to_add, old_size],
                       "attempt to add with overflow")
        total == next_power_of_two(sum.value)
        twice == Checked(h, wide_add[min_size_to_add, min_size_to_add],
                         "attempt to multiply with overflow")
        new_total_size == IF Less[total.value, twice.value] THEN twice.value
                          ELSE total.value
        panic ==
            IF ~is_power_of_two(layout.align) THEN "align must be a power of two"
            ELSE IF needed.panic # None THEN needed.panic
            ELSE IF rounded.overflow /\ h.overflow_checks
            THEN "attempt to add with overflow"
            ELSE IF sum.panic # None THEN sum.panic
            ELSE IF total.overflow /\ h.overflow_checks
            THEN "attempt to add with overflow"
            ELSE IF twice.panic # None THEN twice.panic
            ELSE IF Less[new_total_size, old_size] /\ h.overflow_checks
            THEN "attempt to subtract with overflow"
            ELSE None
    IN  IF panic # None
        THEN [panic |-> panic, new_total_size |-> u64(0), new_added_size |-> u64(0)]
        ELSE [panic |-> None, new_total_size |-> new_total_size,
              new_added_size |-> wrapping_sub[new_total_size, old_size]]

\* A growth that starts where the heap starts.
growth_start_at_heap_start(h) == HeapStart(h.kind)

\* let start = v::KERNEL_HEAP_START + heap.stats_total_bytes() as u64;
growth_start(h) == Pad[wide_add[HeapStart(h.kind), h.stats_total_bytes], 8]

\* The pages the callback maps and gives to the heap: page_range, start_addr
\* and end_addr.
page_range(h, new_added_size) ==
    LET start == growth_start(h)
        past == Checked(h, wide_add[start, new_added_size],
                        "attempt to add with overflow")
        mapping_end == wrapping_sub[past.value, u64(1)]
        first == PageStart(start)
        last == PageStart(mapping_end)
        end_addr == Pad[wide_add[last, u64(4096)], 8]
        panic ==
            IF past.panic # None THEN past.panic
            ELSE IF ~Canonical(past.value) \/ ~Canonical(mapping_end)
                    \/ IsZero[past.value]
            THEN "address passed to VirtAddr::new must not contain any data in bits 48 to 64"
            ELSE None
    IN  [panic |-> panic,
         start_addr |-> first,
         end_addr |-> end_addr,
         empty |-> Less[last, first],
         span |-> wrapping_sub[end_addr, first]]

\* History: the pages a growth has mapped, page_range of the callback.
mapped_by_growth(r, count) ==
    [start_addr |-> r.start_addr, end_addr |-> r.end_addr, pages |-> count]

\* The rescue callback for the failed layout: the sizes, the mapping of the
\* pages under MEMORY's lock, and heap.add_to_heap(start_addr, end_addr),
\* which asserts start <= end and adds the bytes between to the total.
rescue(h, layout) ==
    LET g == growth(h, layout)
        r == page_range(h, g.new_added_size)
        count == IF r.empty THEN 0
                 ELSE IF FitsIn[r.span, 3] THEN ValueOf[Pad[r.span, 3]] \div 4096
                 ELSE MaxHeapPages + 1
        called == [h EXCEPT !.rescues = @ + 1,
                            !.last = [op |-> "rescue", layout |-> layout,
                                      old_size |-> h.stats_total_bytes,
                                      returned |-> FALSE]]
    IN  IF g.panic # None THEN [called EXCEPT !.panic = g.panic]
        ELSE IF r.panic # None THEN [called EXCEPT !.panic = r.panic]
        ELSE IF count > h.frames_free
        THEN [called EXCEPT !.panic = "Out of memory", !.frames_free = 0]
        ELSE IF Less[r.end_addr, r.start_addr]
        THEN [called EXCEPT !.panic = "assertion failed: start <= end",
                            !.frames_free = @ - count]
        ELSE [called EXCEPT
                 !.frames_free = @ - count,
                 !.stats_total_bytes =
                     Pad[wide_add[@, wrapping_sub[r.end_addr, r.start_addr]], 8],
                 !.growths = Append(@, mapped_by_growth(r, count)),
                 !.last.returned = TRUE]

\* The layouts of failed requests.  Sizes: 1, 24, 4096, 5000, 40000,
\* 2^62 + 1, 2^63 - 1, 2^63 + 1, 2^64 - 1; alignments: 1, 8, 4096, 8192, 0, 3.
RequestSizes ==
    {u64(1), u64(24), u64(4096), u64(5000), u64(40000),
     [pow2(62) EXCEPT ![1] = 1], [i \in 1 .. 8 |-> IF i = 8 THEN 127 ELSE 255],
     [pow2(63) EXCEPT ![1] = 1], [i \in 1 .. 8 |-> 255]}

RequestAligns == {pow2(0), pow2(3), pow2(12), pow2(13), u64(0), u64(3)}

\* What Layout::from_size_align accepts: a power of two as alignment and a
\* size that, rounded up to it, is at most isize::MAX.
ValidLayout(layout) ==
    /\ is_power_of_two(layout.align)
    /\ Less[wide_add[layout.size, layout.align], [pow2(63) EXCEPT ![1] = 1]]

HeapStep(h) ==
    /\ heap' = h
    /\ UNCHANGED <<memVars, rdVars, ldrVars, timerVars, smp, con, mlock, boot>>

\* An allocation fails and the heap calls its rescue callback.  The kernel
\* heap gets the Layouts of Rust code; a user heap gets the size and the
\* alignment a user program passes (Layout::from_size_align_unchecked).
Rescue(size, align) ==
    /\ heap.panic = None
    /\ heap.rescues < MaxRescues
    /\ heap.kind = "kernel" => ValidLayout([size |-> size, align |-> align])
    /\ HeapStep(rescue(heap, [size |-> size, align |-> align]))

InitHeap ==
    /\ MemoryInit(NFrames) /\ RamDiskUnused /\ LoaderUnused /\ TimersUnused
    /\ SmpUnused /\ ConUnused /\ MemLockUnused /\ BootUnused
    /\ \E kind \in {"kernel", "user"}, overflow_checks \in BOOLEAN :
           heap = HeapNew(kind, overflow_checks)

NextHeap == \E size \in RequestSizes, align \in RequestAligns : Rescue(size, align)

SpecHeap == InitHeap /\ [][NextHeap]_vars

-----------------------------------------------------------------------------
\* The last call of the rescue callback has returned.
RescueReturned == heap.last.op = "rescue" /\ heap.last.returned

\* What the last returned call did: the total grew, the new total is a power
\* of two that is at least twice the old total or at least twice the request
\* rounded up to a power of two, and what was added covers the request with
\* its alignment padding.
GrowthAsClaimed ==
    LET old == heap.last.old_size
        new == heap.stats_total_bytes
        layout == heap.last.layout
        added == wrapping_sub[new, old]
    IN  /\ Less[old, new]
        /\ is_power_of_two(new)
        /\ \/ ~Less[new, wide_add[old, old]]
           \/ \E k \in 0 .. 63 :
                  /\ ~Less[pow2(k), layout.size]
                  /\ ~Less[new, wide_add[pow2(k), pow2(k)]]
        /\ ~Less[added, wide_add[AlignPadding(old, layout.align), layout.size]]

(* C24: every invocation of the heap rescue callback, kernel heap and user   *)
(* heap alike, strictly increases the heap's total size; the new total is a  *)
(* power of two that is at least twice the old total or at least twice the   *)
(* failed request's size rounded up to a power of two, and the added span is *)
(* at least as large as the failed request with its alignment padding.       *)
C24_HeapGrowth == RescueReturned => GrowthAsClaimed

\* The same for requests that are valid Layouts.
HeapGrowthForValidLayouts ==
    (RescueReturned /\ ValidLayout(heap.last.layout)) => GrowthAsClaimed

-----------------------------------------------------------------------------
(* prepare_application over ELF files: every file has one or two PT_LOAD     *)
(* segments with any p_flags, of up to MaxSegmentPages pages, placed at the   *)
(* usual segment page, at the page after it, or at USER_STACK_START.  The     *)
(* kernel address space may hold a user-range mapping of its own (as the      *)
(* trampoline page does during init_smp).                                     *)

MaxSegmentPages == 2

ElfPages == {SegmentPage, <<0, 0, 1, 1>>, USER_STACK_START}

ElfSegments ==
    [p_vaddr : ElfPages, pages : 0 .. MaxSegmentPages,
     p_flags : SUBSET {"PF_R", "PF_W", "PF_X"}]

TextSegment == [p_vaddr |-> SegmentPage, pages |-> 1, p_flags |-> {"PF_R", "PF_X"}]

ElfFiles ==
    {[e_entry |-> "main", segments |-> <<s>>] : s \in ElfSegments}
    \cup {[e_entry |-> "main", segments |-> <<TextSegment, s>>] : s \in ElfSegments}

NextPrepare ==
    \/ \E c \in Cores, file \in ElfFiles : PrepareApplication(c, file)
    \/ \E c \in Cores : MapRamUser(c, TrampolinePage, {"WRITABLE"})

SpecPrepare == InitLoader /\ [][NextPrepare]_vars

\* The pages covering a segment.
SegmentPages(segment) ==
    {PageRange(segment.p_vaddr, segment.pages)[i] : i \in 1 .. segment.pages}

\* The flags of `page` in the address space of the r-th prepared program.
FlagsIn(r, page) == Translate(mem, resources[r].l4_page_table, page).flags

(* C25: after prepare returns, every page covering a PT_LOAD segment is      *)
(* PRESENT and USER_ACCESSIBLE, is WRITABLE iff the segment is writable, and  *)
(* is NO_EXECUTE iff the segment is not executable or is writable; hence no   *)
(* loaded page is both writable and executable, and the WRITABLE flag set for *)
(* zeroing and copying does not survive on a read-only segment.               *)
C25_SegmentFlags ==
    \A r \in 1 .. Len(resources) : \A k \in 1 .. Len(resources[r].segments) :
        LET segment == resources[r].segments[k]
        IN  \A page \in SegmentPages(segment) :
                /\ IsMapped(mem, resources[r].l4_page_table, page)
                /\ {"PRESENT", "USER_ACCESSIBLE"} \subseteq FlagsIn(r, page)
                /\ ("WRITABLE" \in FlagsIn(r, page)) <=> ("PF_W" \in segment.p_flags)
                /\ ("NO_EXECUTE" \in FlagsIn(r, page))
                       <=> ("PF_X" \notin segment.p_flags \/ "PF_W" \in segment.p_flags)
                /\ ~("WRITABLE" \in FlagsIn(r, page) /\ "NO_EXECUTE" \notin FlagsIn(r, page))

\* A program with a read-only executable segment and a second, writable and
\* executable segment of two pages has been prepared.
C25_Witness ==
    \E r \in 1 .. Len(resources) :
        /\ Len(resources[r].segments) = 2
        /\ resources[r].segments[2].pages = 2
        /\ {"PF_W", "PF_X"} \subseteq resources[r].segments[2].p_flags
        /\ "WRITABLE" \notin FlagsIn(r, SegmentPage)

\* The user-range pages the prepared programs and the kernel may have mapped.
PreparePages ==
    {TrampolinePage}
    \cup {PageRange(p, MaxSegmentPages)[i] : p \in ElfPages, i \in 1 .. MaxSegmentPages}
    \cup {StackPage(i) : i \in 0 .. StackPages}

\* The address spaces that exist before a prepare_application.
SpacesBefore ==
    {mem.kernel_page_table} \cup {resources[r].l4_page_table : r \in 1 .. Len(resources)}

\* A step in which prepare_application returns.
PrepareReturns == Len(resources') = Len(resources) + 1

PreparedSpace == resources'[Len(resources')].l4_page_table

(* C26: prepare_application creates a fresh address space, sets up segments  *)
(* and stack in it, and returns with the kernel address space active; what    *)
(* it maps in the user range is mapped in the new address space only, on      *)
(* frames no other address space maps, and the user-range mappings of the     *)
(* kernel address space and of every program prepared before are unchanged.   *)
C26_PrepareAddressSpace ==
    [][PrepareReturns =>
          /\ PreparedSpace \notin SpacesBefore
          /\ \A c \in Cores : mem'.cr3[c] = mem'.kernel_page_table
          /\ \A t \in SpacesBefore : \A p \in PreparePages :
                 /\ Translate(mem', t, p) = Translate(mem, t, p)
                 /\ IsMapped(mem', PreparedSpace, p) /\ IsMapped(mem', t, p) =>
                        Translate(mem', t, p).frame # Translate(mem', PreparedSpace, p).frame
          /\ \A p, q \in PreparePages : \A t \in SpacesBefore :
                 IsMapped(mem', PreparedSpace, p) /\ IsMapped(mem', t, q) =>
                     Translate(mem', t, q).frame # Translate(mem', PreparedSpace, p).frame
    ]_vars

\* Two programs have been prepared while the kernel address space has a
\* user-range mapping of its own, and the kernel address space is active.
C26_Witness ==
    /\ mem.panic = None
    /\ Len(resources) = 2
    /\ IsMapped(mem, mem.kernel_page_table, TrampolinePage)
    /\ \A r \in 1 .. 2 : IsMapped(mem, resources[r].l4_page_table, SegmentPage)
    /\ \A r \in 1 .. 2 : ~IsMapped(mem, resources[r].l4_page_table, TrampolinePage)
    /\ \A c \in Cores : mem.cr3[c] = mem.kernel_page_table

\* USER_STACK_SIZE of the model: the guard page and StackPages pages
\* (4096 pages in constants.rs).
UserStackSize == (StackPages + 1) * 4096

\* The page of new_rsp = USER_STACK_START + USER_STACK_SIZE - 1024.
NewRspPage == StackPage((UserStackSize - 1024) \div 4096)

\* Page p starts below page q.
PageBelow(p, q) ==
    \E k \in 1 .. 4 : p[k] < q[k] /\ \A j \in 1 .. (k - 1) : p[j] = q[j]

\* The stack of the r-th prepared program is as allocate_stack leaves it.
StackMapped(r) ==
    /\ \A i \in 1 .. (UserStackSize \div 4096 - 1) :
           /\ IsMapped(mem, resources[r].l4_page_table, StackPage(i))
           /\ {"PRESENT", "WRITABLE", "NO_EXECUTE", "USER_ACCESSIBLE"}
                  \subseteq FlagsIn(r, StackPage(i))
    /\ NewRspPage \in {StackPage(i) : i \in 1 .. (UserStackSize \div 4096 - 1)}
    /\ PageBelow(NewRspPage, USER_HEAP_START)

GuardPageUnmapped(r) == ~IsMapped(mem, resources[r].l4_page_table, USER_STACK_START)

\* A PT_LOAD segment of the r-th prepared program covers USER_STACK_START.
SegmentOnGuardPage(r) ==
    \E k \in 1 .. Len(resources[r].segments) :
        USER_STACK_START \in SegmentPages(resources[r].segments[k])

(* C27: after prepare the page at USER_STACK_START is unmapped (guard page), *)
(* the USER_STACK_SIZE/4096 - 1 pages above it are mapped writable,           *)
(* no-execute and user-accessible, and the stack pointer given to the program *)
(* lies inside that range and below USER_HEAP_START.                          *)
C27_UserStack ==
    \A r \in 1 .. Len(resources) : GuardPageUnmapped(r) /\ StackMapped(r)

\* What holds for every prepared program: the stack is mapped, and the guard
\* page is unmapped unless a segment of the program lies on it.
UserStackUnlessSegmentOnGuardPage ==
    \A r \in 1 .. Len(resources) :
        /\ StackMapped(r)
        /\ GuardPageUnmapped(r) <=> ~SegmentOnGuardPage(r)

-----------------------------------------------------------------------------
(* The order of the locks of push_to_frame_buffer.                           *)

\* What push_to_frame_buffer takes, in the order in which it takes it.
SwapOrder == <<"TERM", "BACK_BUFFER_LOCK", "interrupts", "SWAP_LOCK">>

Rank(l) == CHOOSE i \in 1 .. Len(SwapOrder) : SwapOrder[i] = l

\* What core c holds of these in s; a cleared interrupt flag counts as held.
SwapHeld(s, c) ==
    {l \in {"TERM", "BACK_BUFFER_LOCK", "SWAP_LOCK"} : s[l] = c}
    \cup (IF s.cores[c].interrupts THEN {} ELSE {"interrupts"})

\* What core c acquires in a step.
Acquired(c) == SwapHeld(con', c) \ SwapHeld(con, c)

InSwapPath(c) ==
    ConAt(c, {"push_term", "push_back_buffer", "push_interrupts", "push_swap"})

\* Core c acquires nothing that comes before something it holds.
AcquiresInOrder(c) ==
    \A l \in Acquired(c) : \A h \in SwapHeld(con, c) : Rank(h) < Rank(l)

\* In push_to_frame_buffer core c acquires each of the four while it holds
\* exactly the ones before it.
SwapPathInOrder(c) ==
    InSwapPath(c) =>
        \A l \in Acquired(c) :
            SwapHeld(con, c) = {SwapOrder[i] : i \in 1 .. (Rank(l) - 1)}

(* C29: push_to_frame_buffer takes the terminal lock, then the back-buffer   *)
(* lock, then disables interrupts, then takes the swap lock, in exactly this  *)
(* order, and no other path (back-buffer writers, printing, logging, the      *)
(* panic handler) acquires two of them in the opposite order.                 *)
C29_LockOrder ==
    [][\A c \in ConCores : SwapPathInOrder(c) /\ AcquiresInOrder(c)]_vars

\* What holds: the order inside push_to_frame_buffer, and the order on every
\* core that is not in its panic handler.
LockOrderOutsidePanicHandler ==
    [][\A c \in ConCores :
           SwapPathInOrder(c) /\ (~InPanicHandler(c) => AcquiresInOrder(c))]_vars

\* The cycle: core c is in push_to_frame_buffer with TERM, waiting for
\* BACK_BUFFER_LOCK; core d panicked while drawing under lock_back_buffer(),
\* keeps BACK_BUFFER_LOCK and waits for TERM in log::error!.
SwapPathCycle ==
    \E c, d \in ConCores :
        /\ c # d
        /\ ConAt(c, {"push_back_buffer"}) /\ con.TERM = c
        /\ ConAt(d, {"log::error graphics"}) /\ con.BACK_BUFFER_LOCK = d

NoSwapPathCycle == ~SwapPathCycle

-----------------------------------------------------------------------------
(* memory.rs: BootInfoFrameAllocator::new and initialize_free_memory.  The   *)
(* boot information holds the memory map (regions in address order that do   *)
(* not overlap, with bounds that need not be page-aligned) and the frames on  *)
(* which the bootloader has mapped the pages of the RAM disk.  Frames are     *)
(* named by their start addresses.                                            *)

MaxBootFrames == 4
MaxBootRegions == 2
MaxRamDiskPages == 2
FrameSize == 4096

align_up(addr, align) == ((addr + align - 1) \div align) * align
align_down(addr, align) == (addr \div align) * align

BootFrameAddresses == {k * FrameSize : k \in 0 .. (MaxBootFrames - 1)}

\* Region bounds: every half page of the physical memory.
BootAddresses == {k * (FrameSize \div 2) : k \in 0 .. (2 * MaxBootFrames)}

MemoryRegionKinds == {"Usable", "Bootloader"}

MemoryRegions ==
    {r \in [start : BootAddresses, end : BootAddresses, kind : MemoryRegionKinds] :
        r.start < r.end}

RECURSIVE MemoryMapsOf(_)
MemoryMapsOf(n) ==
    IF n = 0 THEN {<<>>}
    ELSE MemoryMapsOf(n - 1)
         \cup {Append(m, r) : m \in {x \in MemoryMapsOf(n - 1) : Len(x) = n - 1},
                              r \in MemoryRegions}

MemoryMaps ==
    {m \in MemoryMapsOf(MaxBootRegions) :
        Len(m) > 0 /\ \A k \in 1 .. (Len(m) - 1) : m[k].end <= m[k + 1].start}

RamDiskLengths == {0, 1, FrameSize} \cup {(MaxRamDiskPages - 1) * FrameSize + 1}

BootInfos ==
    [memory_regions : MemoryMaps,
     ramdisk_frames : [1 .. MaxRamDiskPages -> BootFrameAddresses],
     ramdisk_len : RamDiskLengths,
     constructed : {FALSE}]

\* already_mapped_range.contains(r) for the range first..=last
already_mapped_range_exclusive(first, last, r) == first <= r /\ r < last

already_mapped_range(first, last, r) == first <= r /\ r <= last

\* (start..end).step_by(step)
RECURSIVE step_by(_, _, _)
step_by(start, end, step) ==
    IF start >= end THEN <<>> ELSE <<start>> \o step_by(start + step, end, step)

\* The frames of the usable regions, without those of the RAM disk.
RECURSIVE raw_usable_frame_addresses(_, _, _)
raw_usable_frame_addresses(memory_regions, first, last) ==
    IF memory_regions = <<>> THEN <<>>
    ELSE LET r == Head(memory_regions)
         IN  (IF r.kind = "Usable" /\ r.start > 0
              THEN SelectSeq(step_by(align_up(r.start, FrameSize),
                                     align_down(r.end, FrameSize), FrameSize),
                             LAMBDA a : ~already_mapped_range(first, last, a))
              ELSE <<>>)
             \o raw_usable_frame_addresses(Tail(memory_regions), first, last)

\* initialize_free_memory: the physical range of the RAM disk, found page by
\* page through the active address space, and then the free list.
initialize_free_memory(boot_info) ==
    LET pages == align_up(boot_info.ramdisk_len, FrameSize) \div FrameSize
        phys_addr(i) == boot_info.ramdisk_frames[i + 1]
    IN  IF \E i \in 1 .. (pages - 1) : phys_addr(i) # phys_addr(i - 1) + FrameSize
        THEN [panic |-> "Assertion failed", free_list |-> <<>>]
        ELSE IF pages = 0
        THEN [panic |-> "called Option::unwrap() on a None value", free_list |-> <<>>]
        ELSE [panic |-> None,
              free_list |-> raw_usable_frame_addresses(boot_info.memory_regions,
                                phys_addr(0), phys_addr(pages - 1))]

BootInfoFrameAllocatorNew ==
    /\ ~boot.constructed
    /\ LET r == initialize_free_memory(boot)
       IN  mem' = IF r.panic # None THEN Panic(mem, r.panic)
                  ELSE [mem EXCEPT
                           !.free_list = r.free_list,
                           !.total_frames = Len(r.free_list),
                           !.free_frames = Len(r.free_list),
                           !.ram = [f \in {r.free_list[k] : k \in 1 .. Len(r.free_list)}
                                    |-> "FreeNode"]]
    /\ boot' = [boot EXCEPT !.constructed = TRUE]
    /\ hist' = NoHist
    /\ UNCHANGED <<user_tables, held, written, rdVars, ldrVars, timerVars, smp, con,
                   mlock, heap>>

BootAllocateFrame == boot.constructed /\ AllocateFrame

InitBoot ==
    /\ MemoryInit(0) /\ RamDiskUnused /\ LoaderUnused /\ TimersUnused
    /\ SmpUnused /\ ConUnused /\ MemLockUnused /\ HeapUnused
    /\ boot \in BootInfos

NextBoot ==
    \/ BootInfoFrameAllocatorNew
    \/ BootAllocateFrame
    \/ \E f \in BootFrameAddresses : DeallocateFrame(f)

SpecBoot == InitBoot /\ [][NextBoot]_vars

\* The frames that back the RAM disk.
RamDiskFrames ==
    {boot.ramdisk_frames[i] :
        i \in 1 .. ((boot.ramdisk_len + FrameSize - 1) \div FrameSize)}

\* The frames that lie wholly inside a usable region that does not start at 0.
UsableFrames ==
    {f \in BootFrameAddresses :
        \E k \in 1 .. Len(boot.memory_regions) :
            /\ boot.memory_regions[k].kind = "Usable"
            /\ boot.memory_regions[k].start > 0
            /\ boot.memory_regions[k].start <= f
            /\ f + FrameSize <= boot.memory_regions[k].end}

FreeListFrames == {mem.free_list[k] : k \in 1 .. Len(mem.free_list)}

Constructed == boot.constructed /\ mem.panic = None

(* C30: after construction the free list holds exactly the 4 KiB frames that *)
(* lie wholly inside Usable regions with start > 0, without the frames that   *)
(* back the RAM disk, each frame once, and total_frames = free_frames = their *)
(* number; no frame of the RAM disk is ever returned by allocate_frame.       *)
C30_FreeList ==
    Constructed =>
        /\ FreeListFrames \cup held = UsableFrames \ RamDiskFrames
        /\ FreeListFrames \cap held = {}
        /\ Cardinality(FreeListFrames) = Len(mem.free_list)
        /\ mem.total_frames = Cardinality(UsableFrames \ RamDiskFrames)
        /\ mem.free_frames = Len(mem.free_list)
        /\ held = {} => mem.free_frames = mem.total_frames
        /\ held \cap RamDiskFrames = {}

\* The allocator was built from two usable regions with bounds inside pages,
\* its RAM disk of two pages lies in usable memory, and a frame is handed out.
C30_Witness ==
    /\ Constructed
    /\ Len(boot.memory_regions) = 2
    /\ \A k \in 1 .. 2 : /\ boot.memory_regions[k].kind = "Usable"
                         /\ boot.memory_regions[k].start % FrameSize # 0
    /\ Cardinality(RamDiskFrames) = 2
    /\ RamDiskFrames \cap UsableFrames # {}
    /\ held # {}

-----------------------------------------------------------------------------
(* map_ram_kernel and map_ram_user as their callers use them (the kernel     *)
(* heap and the AP stacks with WRITABLE | NO_EXECUTE, the loader, the user    *)
(* heaps and the memory tests with the flags below), on pages inside and      *)
(* outside their ranges, in the kernel address space and in user address      *)
(* spaces, while frames are taken until there is none left.                   *)

KernelCallerFlags == {{"WRITABLE", "NO_EXECUTE"}, {"PRESENT", "WRITABLE", "NO_EXECUTE"}}
UserCallerFlags == {{"WRITABLE"}, {"WRITABLE", "NO_EXECUTE"}}

NextMapRam ==
    \/ AllocateFrame
    \/ \E c \in Cores : CreateUserPageTable(c)
    \/ \E c \in Cores, t \in Frames : SwitchToUserPageTable(c, t)
    \/ \E c \in Cores : SwitchToKernelPageTable(c)
    \/ \E c \in Cores, p \in ModelPages, fl \in KernelCallerFlags : MapRamKernel(c, p, fl)
    \/ \E c \in Cores, p \in ModelPages, fl \in UserCallerFlags : MapRamUser(c, p, fl)

SpecMapRam == InitSpaces /\ [][NextMapRam]_vars

\* The last two log lines are those of the out-of-memory closure.
UtilizationLogged(m, before) ==
    /\ Len(m.logged) >= 2
    /\ m.logged[Len(m.logged) - 1].text = "Out of memory"
    /\ m.logged[Len(m.logged)] =
           [level |-> "Error", text |-> "Memory utilization",
            util |-> get_memory_utilization(before)]

\* What a call of map_ram_kernel or map_ram_user that is given `page` in its
\* range makes of the memory `m`, judged by its outcome `r`, when
\* allocate_frame has no frame for the page itself.
OutOfMemoryPanic(m, r) ==
    /\ r.panic = "Out of memory"
    /\ UtilizationLogged(r, m)
    /\ r.free_list = <<>> /\ r.free_frames = m.free_frames /\ r.tables = m.tables

\* The calls the cores can make in the present state.
MapRamCalls ==
    {[kind |-> "kernel", c |-> c, page |-> p, r |-> map_ram_kernel(mem, c, p, fl)] :
        c \in Cores, p \in KernelPages, fl \in KernelCallerFlags}
    \cup {[kind |-> "user", c |-> c, page |-> p, r |-> map_ram_user(mem, c, p, fl)] :
        c \in Cores, p \in UserPages, fl \in UserCallerFlags}

\* allocate_frame on an empty free list: None, and nothing changes.
AllocateFrameOnEmpty ==
    /\ mem.free_frames >= 0
    /\ mem.free_frames = Len(mem.free_list)
    /\ mem.free_list = <<>> =>
           allocate_frame(mem) = [m |-> mem, frame |-> NoFrame]

\* A call that returns normally has mapped its page.
NeverReturnsUnmapped ==
    \A call \in MapRamCalls :
        call.r.panic = None => IsMapped(call.r, call.r.cr3[call.c], call.page)

(* C31: allocate_frame on an empty free list returns None and changes        *)
(* neither the free list nor the counters; map_ram_kernel and map_ram_user    *)
(* turn every None of allocate_frame into the panic "Out of memory" after     *)
(* logging the utilisation, and never return with the page left unmapped.     *)
C31_OutOfMemory ==
    Running =>
        /\ AllocateFrameOnEmpty
        /\ NeverReturnsUnmapped
        /\ \A call \in MapRamCalls :
               (call.r.panic # None /\ ~IsMapped(mem, mem.cr3[call.c], call.page)) =>
                   OutOfMemoryPanic(mem, call.r)

\* What holds: the None that map_ram_kernel and map_ram_user receive
\* themselves becomes "Out of memory" with the utilisation logged; a None
\* that map_to receives for a page table becomes "Unable to map page".
C31_OutOfMemoryOrUnableToMap ==
    Running =>
        /\ AllocateFrameOnEmpty
        /\ NeverReturnsUnmapped
        /\ \A call \in MapRamCalls :
               /\ mem.free_list = <<>> => OutOfMemoryPanic(mem, call.r)
               /\ (call.r.panic # None /\ mem.free_list # <<>>
                       /\ ~IsMapped(mem, mem.cr3[call.c], call.page)) =>
                      /\ call.r.panic = "Unable to map page"
                      /\ call.r.free_list = <<>>
                      /\ call.r.logged = mem.logged
                      /\ Len(mem.free_list)
                             <= MissingTables(mem, mem.cr3[call.c], call.page)

\* map_ram_user has found the free list empty and has stopped the kernel.
C31_Witness ==
    /\ mem.panic = "Out of memory"
    /\ mem.free_list = <<>> /\ mem.free_frames = 0
    /\ Len(mem.logged) = 2
    /\ mem.logged[2].util = <<mem.total_frames, mem.total_frames>>
    /\ ~IsMapped(mem, mem.kernel_page_table, USER_STACK_START)

\* The address spaces there are.
AddressSpaces == {mem.kernel_page_table} \cup user_tables

\* The calls the cores can make with a page outside the range of the function.
OutOfRangeCalls ==
    {map_ram_kernel(mem, c, p, fl) :
        c \in Cores, p \in {q \in ModelPages : ~InKernelRange(q)}, fl \in KernelCallerFlags}
    \cup {map_ram_user(mem, c, p, fl) :
        c \in Cores, p \in {q \in ModelPages : ~InUserRange(q)}, fl \in UserCallerFlags}

(* C32: map_ram_kernel accepts only kernel-range pages and maps them with    *)
(* flags | PRESENT, never USER_ACCESSIBLE, so no kernel-range page is         *)
(* user-accessible in any address space; map_ram_user accepts only user-range *)
(* pages and always adds PRESENT | USER_ACCESSIBLE; a page outside the range  *)
(* makes the call panic before a frame is taken.                              *)
C32_RangesAndFlags ==
    /\ \A l4 \in AddressSpaces : \A p \in KernelPages :
           IsMapped(mem, l4, p) =>
               /\ "PRESENT" \in Translate(mem, l4, p).flags
               /\ "USER_ACCESSIBLE" \notin Translate(mem, l4, p).flags
    /\ \A l4 \in AddressSpaces : \A p \in UserPages :
           IsMapped(mem, l4, p) =>
               {"PRESENT", "USER_ACCESSIBLE"} \subseteq Translate(mem, l4, p).flags
    /\ \A l4 \in AddressSpaces : \A p \in ModelPages :
           IsMapped(mem, l4, p) => InKernelRange(p) \/ InUserRange(p)
    /\ Running => \A r \in OutOfRangeCalls : r = Panic(mem, "Assertion failed")

\* A call with a page outside its range has stopped the kernel; a kernel page
\* is mapped and seen from a user address space, where a user page is mapped.
C32_Witness ==
    /\ mem.panic = "Assertion failed"
    /\ \E l4 \in user_tables :
           /\ IsMapped(mem, l4, KERNEL_HEAP_START)
           /\ IsMapped(mem, l4, USER_STACK_START)
           /\ ~IsMapped(mem, mem.kernel_page_table, USER_STACK_START)


-----------------------------------------------------------------------------
(* PIT channel 2.  pit::delay is pit::set followed by wait_for_timeout; the
   steps of startup_aps are taken with the two halves apart, so that what
   the other cores do while the BSP polls the PIT is seen. *)

\* pit::set: an Err(OutOfRange) is unwrapped by the caller.
BspPitSet(pc, us, wait) ==
    /\ At(Bsp, pc)
    /\ IF FitsIn[pit_counter(us), 2]
       THEN SmpStep(mem, Goto([smp EXCEPT !.events =
                                   Append(@, [ev |-> "delay", cmd |-> <<>>, us |-> us])],
                              Bsp, wait))
       ELSE SmpStep(mem, CorePanic(smp, Bsp, "called Result::unwrap() on an Err value"))

\* wait_for_timeout sees the status bit of counter 2.
BspPitWaitForTimeout(wait, next) ==
    /\ At(Bsp, wait)
    /\ SmpStep(mem, Goto(smp, Bsp, next))

NextStartupPit ==
    \/ BspInitGdt
    \/ \E c \in SmpCores : InitializeOwnCoreLocalData(c)
    \/ \E c \in SmpCores : ApicInit(c)
    \/ \E c \in SmpCores, t \in SmpTicksIn50ms :
           ApicInitTimerFinish(c, sub_from_u32_max(t))
    \/ BspAllocateStacks
    \/ BspAssL4
    \/ BspMapTrampoline
    \/ BspCopyTrampoline
    \/ BspSendInit
    \/ BspPitSet("delay_10_000", 10000, "wait_10_000")
    \/ BspPitWaitForTimeout("wait_10_000", "send_startup")
    \/ BspSendStartup("send_startup", "delay_200")
    \/ BspPitSet("delay_200", 200, "wait_200")
    \/ BspPitWaitForTimeout("wait_200", "send_startup_again")
    \/ BspSendStartup("send_startup_again", "wait_for_aps")
    \/ BspStartWaiting
    \/ BspSpinCheck
    \/ BspSpinDecrement
    \/ BspUnmapTrampoline
    \/ BspCheckTimeOut
    \/ \E c \in SmpCores : EnableInterrupts(c)
    \/ \E c \in SmpCores : SyncCoresBarrier(c)
    \/ \E c \in SmpCores : BarrierWait(c)
    \/ \E c \in SmpCores : BarrierSpinReturns(c)
    \/ \E c \in Aps : ApTrampoline(c)
    \/ \E c \in Aps : ApEntry(c)
    \/ \E c \in Aps : ApInitGdt(c)
    \/ \E c \in SmpCores : EnterMain(c)

SpecStartupPit == InitSmp /\ [][NextStartupPit]_vars

\* The core is between its pit::set and the end of its wait_for_timeout.
UsesPit(c) ==
    /\ c \in SmpCores
    /\ smp.cores[c].pc \in {"init_timer", "wait_10_000", "wait_200"}

\* The holder of AP_TIMER_INIT_LOCK is the one core that calibrates.
CalibrationsExclusive ==
    DOMAIN smp # {} =>
        \A c \in SmpCores :
            Calibrating(c) =>
                /\ smp.AP_TIMER_INIT_LOCK = c
                /\ \A d \in SmpCores : Calibrating(d) => d = c

\* The BSP polls the PIT for its 200 microseconds while an AP that the
\* first SIPI woke is in the 50 ms of its calibration.
DelayOverlapsCalibration ==
    /\ DOMAIN smp # {}
    /\ At(Bsp, "wait_200")
    /\ \E c \in Aps : Calibrating(c)

\* C33: PIT channel 2 is used by at most one core at a time: no core is
\* between its pit::set and the end of its wait while another core is, and
\* the BSP's 200 microsecond delay between the two SIPIs never overlaps the
\* calibration delay of an AP.
C33_PitExclusive ==
    DOMAIN smp # {} =>
        /\ \A c \in SmpCores, d \in SmpCores :
               UsesPit(c) /\ UsesPit(d) => c = d
        /\ ~DelayOverlapsCalibration


\* A panic handler waits for a lock that a core keeps which will never give
\* it back: the panicking core itself, or a core that has stopped.
BlockedOnKeptLock(c) ==
    \E l \in {"TERM", "SERIAL_WRITE_LOCK"} :
        /\ ConAt(c, {IF l = "TERM" THEN "log::error graphics" ELSE "log::error"})
        /\ con[l] # NoIndex
        /\ InPanicHandler(con[l])
        /\ l \in con.cores[con[l]].kept

\* C34: the panic handler always reaches its final step, the halt loop
\* (preceded in test mode by the write to the exit port), whichever locks
\* are held at the moment of the panic: it never blocks for ever on a lock
\* held by the panicking core itself or by a core that has stopped.
C34_PanicHandlerTerminates ==
    /\ [](DOMAIN con # {} => \A c \in ConCores : ~BlockedOnKeptLock(c))
    /\ \A c \in ConCores :
           InPanicHandler(c) ~> (ConAt(c, {"loop"}) /\ PanicStepsInOrder(c))


-----------------------------------------------------------------------------
(* start_timer that returns Err. *)

\* The step is a call of start_timer that returns Err(()): only start_timer
\* records such a call, and it starts and ends with the core outside
\* init_timer.
StartTimerFails ==
    /\ apic.pc = "idle" /\ apic'.pc = "idle"
    /\ pit' = pit
    /\ apic'.call.op = "start_timer"
    /\ apic'.call.result = "Err"

\* The registers of the APIC timer: LVT entry, divider, initial count.
TimerRegisters(a) == <<a.lvt, a.divide, a.initial_count>>

\* A timer that an earlier call has started.
TimerRuns(a) == a.lvt \in {LvtPeriodic, LvtOneShot}

\* C35: a start_timer call that returns failure leaves the core's timer as
\* it was: no APIC timer register (LVT entry, divider, initial count) is
\* written, and the callback stored by an earlier successful call is kept.
C35_FailedStartTimer ==
    [][StartTimerFails =>
           /\ TimerRegisters(apic') = TimerRegisters(apic)
           /\ apic'.apic_timer_interrupt_function = apic.apic_timer_interrupt_function]_vars

\* What the failing call leaves alone: the registers and the calibration.
FailedStartTimerKeepsRegisters ==
    [][StartTimerFails =>
           /\ TimerRegisters(apic') = TimerRegisters(apic)
           /\ apic'.apic_timer_ticks_per_second = apic.apic_timer_ticks_per_second
           /\ mem' = mem]_vars

\* A failed call has replaced the callback of a running timer.
CallbackReplacedByFailedCall ==
    /\ DOMAIN apic # {}
    /\ apic.call.op = "start_timer"
    /\ apic.call.result = "Err"
    /\ TimerRuns(apic)
    /\ apic.apic_timer_interrupt_function = apic.call.interrupt


-----------------------------------------------------------------------------
(* The order in which the kernel's code paths take the kernel-heap lock
   (INNER_KERNEL_ALLOC), MEMORY and the locks of the logger.  Every path is
   the sequence of its lock, unlock and work steps as its source takes them;
   the cores run the paths side by side, and the timer interrupt comes in
   between any two steps. *)

LockNames == {"INNER_KERNEL_ALLOC", "MEMORY", "ACPI", "SERIAL_WRITE_LOCK", "TERM"}

Lock(l) == <<[op |-> "lock", arg |-> l]>>
Unlock(l) == <<[op |-> "unlock", arg |-> l]>>
Do(what) == <<[op |-> "do", arg |-> what]>>

\* KernelLogger::log: the serial half under SERIAL_WRITE_LOCK, then the
\* graphics half under TERM; no allocation.
Log ==
    Lock("SERIAL_WRITE_LOCK") \o Do("serial_print") \o Unlock("SERIAL_WRITE_LOCK")
    \o Lock("TERM") \o Do("print") \o Unlock("TERM")

\* The rescue callback of the kernel heap, called with the heap locked.
\* The first MEMORY.lock() of the kernel runs Memory::new, which logs.
kernel_heap_rescue(first) ==
    Log
    \o (IF first THEN Log \o Do("Memory::new") ELSE <<>>)
    \o Lock("MEMORY") \o Do("map_ram_kernel") \o Log \o Log \o Unlock("MEMORY")
    \o Do("add_to_heap")

\* GlobalAlloc::alloc / dealloc of the kernel: the trace line, then the
\* locked heap, which calls the rescue when it has no block left.
kernel_alloc(grows, first) ==
    Log \o Lock("INNER_KERNEL_ALLOC")
    \o (IF grows THEN kernel_heap_rescue(first) ELSE <<>>)
    \o Do("alloc") \o Unlock("INNER_KERNEL_ALLOC")

kernel_dealloc == Log \o Lock("INNER_KERNEL_ALLOC") \o Do("dealloc")
                  \o Unlock("INNER_KERNEL_ALLOC")

\* Acpi::new, run by the first ACPI.lock(): the tables are parsed into heap
\* memory before any lock is taken.
acpi_new == Log \o kernel_alloc(TRUE, TRUE) \o Log \o kernel_dealloc

\* allocate_stacks with the stack memory taken from the heap under MEMORY.
allocate_stacks_locks_from_heap ==
    Log \o Lock("ACPI") \o Unlock("ACPI")
    \o Lock("MEMORY") \o kernel_alloc(TRUE, FALSE) \o Log \o Unlock("MEMORY")

\* smp.rs allocate_stacks
allocate_stacks_locks ==
    Log \o Lock("ACPI") \o Unlock("ACPI")
    \o Lock("MEMORY") \o Do("map_ram_kernel") \o Log \o Unlock("MEMORY")

\* init_smp: the trampoline page is mapped and, after the start-up, unmapped.
init_smp_pages ==
    Lock("MEMORY") \o Do("map_frame") \o Unlock("MEMORY")
    \o Lock("ACPI") \o Unlock("ACPI")
    \o Lock("MEMORY") \o Do("unmap") \o Unlock("MEMORY")

\* MEMORY.lock().log_memory_utilization(level)
log_utilization == Lock("MEMORY") \o Log \o Unlock("MEMORY")

\* loader.rs map_segment
map_segment_locks ==
    Lock("MEMORY") \o Do("map_ram_user") \o Unlock("MEMORY")
    \o Do("copy")
    \o Lock("MEMORY") \o Do("change_flags") \o Unlock("MEMORY")

\* loader.rs prepare_application
prepare_application_locks ==
    Log
    \o Lock("MEMORY") \o Do("create_user_page_table") \o Unlock("MEMORY")
    \o map_segment_locks
    \o Log
    \o Log \o Lock("MEMORY") \o Do("map_ram_user") \o Unlock("MEMORY")
    \o Lock("MEMORY") \o Do("switch_to_kernel_page_table") \o Unlock("MEMORY")

\* The rescue callback of a user heap: the heap is the running program's own.
user_heap_rescue ==
    Log \o Lock("MEMORY") \o Do("map_ram_user") \o Log \o Unlock("MEMORY")
    \o Do("add_to_heap")

\* switch_to_double_buffer: the back buffer is allocated before TERM is taken.
switch_to_double_buffer_locks ==
    Log \o kernel_alloc(TRUE, FALSE) \o Lock("TERM") \o Do("buffer") \o Unlock("TERM")

PathNames == {"acpi_new", "kernel_alloc", "kernel_alloc_grows", "kernel_dealloc",
              "allocate_stacks", "init_smp", "log_memory_utilization",
              "prepare_application", "user_heap_rescue", "switch_to_double_buffer"}

Script(path) ==
    CASE path = "acpi_new" -> acpi_new
      [] path = "kernel_alloc" -> kernel_alloc(FALSE, FALSE)
      [] path = "kernel_alloc_grows" -> kernel_alloc(TRUE, FALSE)
      [] path = "kernel_dealloc" -> kernel_dealloc
      [] path = "allocate_stacks" -> allocate_stacks_locks
      [] path = "init_smp" -> init_smp_pages
      [] path = "log_memory_utilization" -> log_utilization
      [] path = "prepare_application" -> prepare_application_locks
      [] path = "user_heap_rescue" -> user_heap_rescue
      [] path = "switch_to_double_buffer" -> switch_to_double_buffer_locks
      [] OTHER -> <<>>

LockCores == {0, 1}

LockCoreIdle == [path |-> "idle", pc |-> 0, order |-> <<>>, in_interrupt |-> FALSE]

LockOrderPowerOn ==
    [locks |-> [l \in LockNames |-> NoIndex],
     cores |-> [c \in LockCores |-> LockCoreIdle]]

LockStep(l) ==
    /\ mlock' = l
    /\ UNCHANGED <<memVars, rdVars, ldrVars, timerVars, smp, con, heap, boot>>

\* The step the core is about to take.
NextStepOf(s, c) == Script(s.cores[c].path)[s.cores[c].pc]

Runs(s, c) ==
    /\ s.cores[c].path # "idle"
    /\ ~s.cores[c].in_interrupt

\* The core goes on to the next step of its path, or returns from it.
Advance(s, c) ==
    IF s.cores[c].pc = Len(Script(s.cores[c].path))
    THEN [s EXCEPT !.cores[c].path = "idle", !.cores[c].pc = 0]
    ELSE [s EXCEPT !.cores[c].pc = @ + 1]

Without(order, l) == SelectSeq(order, LAMBDA x : x # l)

CallPath(c, path) ==
    /\ mlock.cores[c].path = "idle"
    /\ ~mlock.cores[c].in_interrupt
    /\ LockStep([mlock EXCEPT !.cores[c].path = path, !.cores[c].pc = 1])

\* spin::Mutex::lock returns when the lock is free.
AcquireLock(c) ==
    /\ Runs(mlock, c)
    /\ NextStepOf(mlock, c).op = "lock"
    /\ mlock.locks[NextStepOf(mlock, c).arg] = NoIndex
    /\ LockStep(Advance([mlock EXCEPT
           !.locks[NextStepOf(mlock, c).arg] = c,
           !.cores[c].order = Append(@, NextStepOf(mlock, c).arg)], c))

\* The guard is dropped.
ReleaseLock(c) ==
    /\ Runs(mlock, c)
    /\ NextStepOf(mlock, c).op = "unlock"
    /\ LockStep(Advance([mlock EXCEPT
           !.locks[NextStepOf(mlock, c).arg] = NoIndex,
           !.cores[c].order = Without(@, NextStepOf(mlock, c).arg)], c))

PathWorks(c) ==
    /\ Runs(mlock, c)
    /\ NextStepOf(mlock, c).op = "do"
    /\ LockStep(Advance(mlock, c))

\* The timer interrupt: the handler calls the callback (an atomic store or
\* add) and signals the end of the interrupt; it takes no lock.
TimerInterruptEnters(c) ==
    /\ ~mlock.cores[c].in_interrupt
    /\ LockStep([mlock EXCEPT !.cores[c].in_interrupt = TRUE])

TimerInterruptReturns(c) ==
    /\ mlock.cores[c].in_interrupt
    /\ LockStep([mlock EXCEPT !.cores[c].in_interrupt = FALSE])

InitLockOrder ==
    /\ MemoryInit(NFrames) /\ RamDiskUnused /\ LoaderUnused /\ TimersUnused
    /\ SmpUnused /\ ConUnused /\ HeapUnused /\ BootUnused
    /\ mlock = LockOrderPowerOn

NextLockOrder ==
    \/ \E c \in LockCores, path \in PathNames : CallPath(c, path)
    \/ \E c \in LockCores : AcquireLock(c)
    \/ \E c \in LockCores : ReleaseLock(c)
    \/ \E c \in LockCores : PathWorks(c)
    \/ \E c \in LockCores : TimerInterruptEnters(c)
    \/ \E c \in LockCores : TimerInterruptReturns(c)

SpecLockOrder == InitLockOrder /\ [][NextLockOrder]_vars

Holds(s, c, l) == s.locks[l] = c

\* Core c spins on a lock that core d holds.
WaitsFor(s, c, d) ==
    /\ s.cores[c].path # "idle"
    /\ NextStepOf(s, c).op = "lock"
    /\ s.locks[NextStepOf(s, c).arg] = d

\* Some cores wait for each other (or one for itself) for ever.
WaitCycle(s) ==
    \E S \in SUBSET LockCores :
        /\ S # {}
        /\ \A c \in S : \E d \in S : WaitsFor(s, c, d)

\* Core c is about to take the kernel-heap lock, or holds it.
InKernelHeap(s, c) ==
    \/ Holds(s, c, "INNER_KERNEL_ALLOC")
    \/ /\ s.cores[c].path # "idle"
       /\ NextStepOf(s, c) = Lock("INNER_KERNEL_ALLOC")[1]

\* The position of a lock in the order in which core c took its locks.
PlaceIn(order, l) ==
    IF \E i \in 1 .. Len(order) : order[i] = l
    THEN CHOOSE i \in 1 .. Len(order) : order[i] = l
    ELSE 0

\* C36: there is no lock-order cycle between the kernel-heap lock and
\* MEMORY: a core that holds both took the heap lock first (the rescue
\* callback), no core allocates from or frees to the kernel heap while it
\* holds MEMORY, and no cores wait for each other's locks.
C36_HeapBeforeMemory ==
    DOMAIN mlock # {} =>
        /\ \A c \in LockCores :
               /\ Holds(mlock, c, "MEMORY") /\ Holds(mlock, c, "INNER_KERNEL_ALLOC") =>
                      PlaceIn(mlock.cores[c].order, "INNER_KERNEL_ALLOC")
                          < PlaceIn(mlock.cores[c].order, "MEMORY")
               /\ Holds(mlock, c, "MEMORY") =>
                      ~(NextStepOf(mlock, c) = Lock("INNER_KERNEL_ALLOC")[1])
        /\ ~WaitCycle(mlock)

\* One core grows the kernel heap and holds both locks while the other,
\* which prepares a program, waits for MEMORY.
C36_Witness ==
    /\ DOMAIN mlock # {}
    /\ \E c \in LockCores, d \in LockCores :
           /\ Holds(mlock, c, "INNER_KERNEL_ALLOC") /\ Holds(mlock, c, "MEMORY")
           /\ mlock.cores[d].path = "prepare_application"
           /\ WaitsFor(mlock, d, c)


-----------------------------------------------------------------------------
(* The barriers after start-up: the two rounds of kernel_main / ap_entry_fn,
   the four rounds of common_main::main, and the barrier!(ap_count) of the
   cores other than core 0.  The cores start where kernel_main and
   ap_entry_fn have enabled interrupts. *)

MaxRefreshes == 2

\* barrier!(ap_count) with every core counted.
ap_barrier_for_all_cores(ap_count) ==
    [constructed |-> 1, num_threads |-> ap_count + 1, count |-> 0,
     generation_id |-> 0]

\* barrier!(ap_count): BARRIER.call_once(|| spin::Barrier::new(ap_count))
ap_barrier(ap_count) ==
    [constructed |-> 1, num_threads |-> ap_count, count |-> 0, generation_id |-> 0]

\* The ways the APs take their indices from the trampoline's counter.
CpuIndices(ap_count) ==
    {f \in [0 .. ap_count -> 0 .. ap_count] :
        /\ f[Bsp] = 0
        /\ \A c \in 0 .. ap_count, d \in 0 .. ap_count : f[c] = f[d] => c = d}

MainPowerOn(ap_count, testing, index) ==
    [SmpPowerOn(ap_count, <<0, 16, 0, 0, 0, 0, 0, 0>>) EXCEPT
        !.cores = [c \in 0 .. ap_count |->
                      [CorePowerOn("sync_cores_barrier") EXCEPT !.interrupts = TRUE]],
        !.CORE_LOCAL = [c \in 0 .. ap_count |-> [init |-> TRUE, cpu_index |-> index[c]]],
        !.AP_CORE_COUNTER = ap_count,
        !.AP_STARTUP_DONE_COUNTER = ap_count]
    @@ [testing |-> testing,
        REFRESH_COUNTER |-> 0,
        BARRIER |-> [constructed |-> 0, num_threads |-> 0, count |-> 0,
                     generation_id |-> 0],
        arrived |-> {}]

cpu_index(s, c) == s.CORE_LOCAL[c].cpu_index

\* Where a core goes on when its k-th sync_cores_barrier has returned.
AfterSync(s, c) ==
    LET k == s.cores[c].returned
    IN  CASE k = 1 -> "sync_cores_barrier"
          [] k = 2 -> IF s.testing
                      THEN (IF c = Bsp THEN "bsp_test_main" ELSE "hlt")
                      ELSE "app_test"
          [] k \in {3, 5} -> IF cpu_index(s, c) = 0 THEN "log_memory_utilization"
                             ELSE "sync_cores_barrier"
          [] k = 4 -> "timer_test"
          [] OTHER -> IF cpu_index(s, c) = 0 THEN "switch_to_double_buffer"
                      ELSE "wait_for_frames"

\* The core continues in main where the barrier of start-up would go on.
InMain(s, t, c) ==
    IF t.cores[c].pc = "barrier_spin" THEN t
    ELSE [t EXCEPT !.cores[c].pc = AfterSync(t, c)]

MainBarrierWait(c) ==
    /\ At(c, "barrier_wait")
    /\ SmpStep(mem, InMain(smp, barrier_wait(smp, c), c))

MainBarrierSpinReturns(c) ==
    /\ At(c, "barrier_spin")
    /\ ~(/\ smp.cores[c].local_gen = smp.SYNC_STARTUP_BARRIER.generation_id
         /\ smp.SYNC_STARTUP_BARRIER.count < smp.SYNC_STARTUP_BARRIER.num_threads)
    /\ SmpStep(mem, Then([smp EXCEPT !.cores[c].returned = @ + 1],
                         LAMBDA t : Goto(t, c, AfterSync(t, c))))

\* app_test, MEMORY.lock().log_memory_utilization, print_logo and
\* timer_test (which returns after five timer interrupts): each ends and
\* the core goes to its next sync_cores_barrier.
MainGoesOn(c) ==
    /\ \/ At(c, "app_test") \/ At(c, "log_memory_utilization") \/ At(c, "timer_test")
    /\ SmpStep(mem, Goto(smp, c, "sync_cores_barrier"))

\* bsp_test_main: the tests run, and exit_qemu.
BspTestMain ==
    /\ At(Bsp, "bsp_test_main")
    /\ SmpStep(mem, Goto(smp, Bsp, "hlt"))

\* Core 0: switch_to_double_buffer, start_timer(30_000, true, int).
Core0StartsFrames(c) ==
    /\ At(c, "switch_to_double_buffer")
    /\ SmpStep(mem, Goto(smp, c, "frame_loop"))

\* Core 0: the timer has asked for a frame; REFRESH_COUNTER.fetch_add(1) and
\* push_to_frame_buffer.
Core0PushesFrame(c) ==
    /\ At(c, "frame_loop")
    /\ smp.REFRESH_COUNTER < MaxRefreshes
    /\ SmpStep(mem, [smp EXCEPT !.REFRESH_COUNTER = @ + 1])

\* The other cores: while REFRESH_COUNTER.load(Acquire) < 2 { spin_loop() }
WaitForFramesEnds(c) ==
    /\ At(c, "wait_for_frames")
    /\ smp.REFRESH_COUNTER >= 2
    /\ SmpStep(mem, Goto(smp, c, "barrier!"))

\* barrier!(ap_count): the first caller constructs BARRIER; wait() as in
\* spin::Barrier.
ApBarrierWait(c) ==
    /\ At(c, "barrier!")
    /\ LET b == IF smp.BARRIER.constructed = 0 THEN ap_barrier(smp.ap_count)
                ELSE smp.BARRIER
           arrived == [smp EXCEPT !.arrived = @ \cup {c}]
       IN  IF b.count + 1 < b.num_threads
           THEN SmpStep(mem, [arrived EXCEPT
                    !.BARRIER = [b EXCEPT !.count = @ + 1],
                    !.cores[c].local_gen = b.generation_id,
                    !.cores[c].pc = "barrier!_spin"])
           ELSE SmpStep(mem, [arrived EXCEPT
                    !.BARRIER = [b EXCEPT !.count = 0, !.generation_id = @ + 1],
                    !.cores[c].pc = "serial_loop"])

ApBarrierSpinReturns(c) ==
    /\ At(c, "barrier!_spin")
    /\ ~(/\ smp.cores[c].local_gen = smp.BARRIER.generation_id
         /\ smp.BARRIER.count < smp.BARRIER.num_threads)
    /\ SmpStep(mem, Goto(smp, c, "serial_loop"))

InitMain ==
    /\ MemoryInit(NFrames)
    /\ RamDiskUnused /\ LoaderUnused /\ TimersUnused /\ ConUnused /\ MemLockUnused
    /\ HeapUnused /\ BootUnused
    /\ \E ap_count \in 0 .. MaxAps, testing \in BOOLEAN :
           \E index \in CpuIndices(ap_count) :
               smp = MainPowerOn(ap_count, testing, index)

NextMain ==
    \/ \E c \in SmpCores : SyncCoresBarrier(c)
    \/ \E c \in SmpCores : MainBarrierWait(c)
    \/ \E c \in SmpCores : MainBarrierSpinReturns(c)
    \/ \E c \in SmpCores : MainGoesOn(c)
    \/ BspTestMain
    \/ \E c \in SmpCores : Core0StartsFrames(c)
    \/ \E c \in SmpCores : Core0PushesFrame(c)
    \/ \E c \in SmpCores : WaitForFramesEnds(c)
    \/ \E c \in SmpCores : ApBarrierWait(c)
    \/ \E c \in SmpCores : ApBarrierSpinReturns(c)

SpecMain == InitMain /\ [][NextMain]_vars

\* Every core keeps running and the periodic timer keeps firing: a core
\* that can take a step takes it.
SpecMainFair ==
    /\ SpecMain
    /\ \A c \in 0 .. MaxAps :
           /\ WF_vars(SyncCoresBarrier(c))
           /\ WF_vars(MainBarrierWait(c))
           /\ WF_vars(MainBarrierSpinReturns(c))
           /\ WF_vars(MainGoesOn(c))
           /\ WF_vars(Core0StartsFrames(c))
           /\ WF_vars(Core0PushesFrame(c))
           /\ WF_vars(WaitForFramesEnds(c))
           /\ WF_vars(ApBarrierWait(c))
           /\ WF_vars(ApBarrierSpinReturns(c))
    /\ WF_vars(BspTestMain)

\* The calls of sync_cores_barrier on every path of a core.
SyncCalls == IF smp.testing THEN 2 ELSE 6

\* The core has left its last barrier and is where it stays.
MainDone(c) ==
    \/ At(c, "hlt")
    \/ At(c, "frame_loop") /\ smp.REFRESH_COUNTER = MaxRefreshes
    \/ At(c, "serial_loop")

InBarrier(c) ==
    \/ At(c, "barrier_wait") \/ At(c, "barrier_spin")
    \/ At(c, "barrier!") \/ At(c, "barrier!_spin")

C37_BarrierCounts ==
    DOMAIN smp # {} =>
        /\ \A c \in SmpCores :
               /\ smp.cores[c].entered <= SyncCalls
               /\ MainDone(c) => /\ smp.cores[c].entered = SyncCalls
                                 /\ smp.cores[c].returned = SyncCalls
        /\ smp.arrived \subseteq {c \in SmpCores : cpu_index(smp, c) # 0}
        /\ Cardinality(smp.arrived) <= smp.ap_count
        /\ smp.BARRIER.constructed = 1 => smp.BARRIER.num_threads = smp.ap_count
        /\ (\E c \in SmpCores : At(c, "serial_loop")) =>
               Cardinality(smp.arrived) = smp.ap_count

\* C37: on every path the BSP and every AP call sync_cores_barrier the same
\* number of times (two during boot, four more in the non-test main), the
\* barrier of width ap_count is reached by exactly the ap_count cores other
\* than core 0, and with every core running and the timer firing every
\* round completes: no core waits at a barrier for ever.
C37_Barriers ==
    /\ []C37_BarrierCounts
    /\ \A c \in 0 .. MaxAps :
           (c \in SmpCores /\ InBarrier(c)) ~> (c \in SmpCores /\ ~InBarrier(c))
    /\ <>(\A c \in SmpCores : MainDone(c))

\* Three cores of a kernel that is no test build have passed the six rounds
\* and the two APs the barrier of width 2.
C37_Witness ==
    /\ DOMAIN smp # {}
    /\ smp.ap_count = 2
    /\ ~smp.testing
    /\ \A c \in SmpCores : MainDone(c) /\ smp.cores[c].returned = 6
    /\ smp.arrived = {1, 2}


-----------------------------------------------------------------------------
(* Physical frame 0: the allocator as BootInfoFrameAllocator::new builds it
   from the boot information, and the trampoline page of init_smp on it. *)

\* init_smp with the trampoline page given back through unmap_ram.
remove_trampoline_with_unmap_ram(m, c) == unmap_ram(m, c, TrampolinePage)

\* init_smp: mem.unmap(page 0); the frame that unmap returns is dropped.
remove_trampoline(m, c) == unmap(m, c, TrampolinePage).m

TrampolineStep(m, op) ==
    /\ mem' = m
    /\ hist' = [op |-> op, free_frames |-> mem.free_frames, free_list |-> mem.free_list]
    /\ UNCHANGED <<user_tables, held, written, rdVars, ldrVars, hwVars>>

\* init_smp: mem.map_frame(page 0, PRESENT | WRITABLE, frame 0)
BootMapTrampoline ==
    /\ Constructed
    /\ ~IsMapped(mem, mem.cr3[Bsp], TrampolinePage)
    /\ TrampolineStep(map_frame(mem, Bsp, TrampolinePage, {"PRESENT", "WRITABLE"}, 0),
                      "map_frame")

BootUnmapTrampoline ==
    /\ Constructed
    /\ IsMapped(mem, mem.cr3[Bsp], TrampolinePage)
    /\ TrampolineStep(remove_trampoline(mem, Bsp), "unmap")

NextFrameZero ==
    \/ BootInfoFrameAllocatorNew
    \/ BootAllocateFrame
    \/ \E f \in BootFrameAddresses : DeallocateFrame(f)
    \/ BootMapTrampoline
    \/ BootUnmapTrampoline

SpecFrameZero == InitBoot /\ [][NextFrameZero]_vars

\* The frames that allocate_frame has returned, to map_to for its page
\* tables or to any other caller.
ReturnedByAllocateFrame == mem.handed_out \cup held

\* C38: physical frame 0 is never in the free list and is never returned by
\* allocate_frame: construction skips the regions that start at 0, and the
\* trampoline page is mapped with map_frame and removed with unmap, which
\* leaves the free list and the number of free frames as they were.
C38_FrameZero ==
    DOMAIN boot # {} =>
        /\ 0 \notin FreeListFrames
        /\ 0 \notin ReturnedByAllocateFrame
        /\ hist.op = "unmap" =>
               /\ mem.free_frames = hist.free_frames
               /\ mem.free_list = hist.free_list
               /\ mem.panic = None =>
                      ~IsMapped(mem, mem.cr3[Bsp], TrampolinePage)

\* The boot information has a usable region that starts at 0, and the
\* trampoline page has been mapped to frame 0 and removed again.
C38_Witness ==
    /\ DOMAIN boot # {}
    /\ Constructed
    /\ \E i \in 1 .. Len(boot.memory_regions) :
           boot.memory_regions[i].kind = "Usable" /\ boot.memory_regions[i].start = 0
    /\ hist.op = "unmap"
    /\ mem.free_frames < mem.total_frames


-----------------------------------------------------------------------------
(* The page ranges of the growths of one heap. *)

\* The pages of the k-th growth: start_addr up to, not including, end_addr.
GrowthRange(k) == heap.growths[k]

\* Where the k-th growth found the end of the heap.
EndBefore(k) == IF k = 1 THEN HeapStart(heap.kind) ELSE GrowthRange(k - 1).end_addr

PageAligned(a) == a[1] = 0 /\ a[2] % 16 = 0

\* The k-th growth maps a page that the j-th growth has mapped.
MapsAgain(j, k) ==
    /\ Less[GrowthRange(j).start_addr, GrowthRange(k).end_addr]
    /\ Less[GrowthRange(k).start_addr, GrowthRange(j).end_addr]

\* C39: successive growths of one heap map pairwise disjoint, consecutive
\* page ranges: each growth starts at the heap's start plus the total size,
\* the total size is a multiple of 4096 after every growth, and no growth
\* maps a page that an earlier growth of the same heap has mapped.
C39_GrowthRanges ==
    DOMAIN heap # {} =>
        /\ PageAligned(heap.stats_total_bytes)
        /\ growth_start(heap) = EndBefore(Len(heap.growths) + 1)
        /\ \A k \in 1 .. Len(heap.growths) :
               /\ GrowthRange(k).start_addr = EndBefore(k)
               /\ ~Less[GrowthRange(k).end_addr, GrowthRange(k).start_addr]
               /\ PageAligned(GrowthRange(k).start_addr)
               /\ PageAligned(GrowthRange(k).end_addr)
               /\ wrapping_sub[GrowthRange(k).end_addr, GrowthRange(k).start_addr]
                      = u64(4096 * GrowthRange(k).pages)
               /\ \A j \in 1 .. (k - 1) : ~MapsAgain(j, k)
        /\ (heap.last.op = "rescue" /\ heap.last.returned) =>
               GrowthRange(Len(heap.growths)).start_addr
                   = Pad[wide_add[HeapStart(heap.kind), heap.last.old_size], 8]

\* A heap has grown three times, by at least a page each time.
C39_Witness ==
    /\ DOMAIN heap # {}
    /\ heap.panic = None
    /\ Len(heap.growths) = MaxRescues
    /\ \A k \in 1 .. Len(heap.growths) : GrowthRange(k).pages > 0

-----------------------------------------------------------------------------
(* main.rs (kernel_main 84 .. 90) and smp.rs (ap_entry_fn 153 .. 174): the   *)
(* order in which a core creates the APIC, fills its slot of CORE_LOCAL,     *)
(* calibrates its timer and enables interrupts, and what it calls once it is *)
(* in main.  Where a core is in that order is read from what it has done.    *)

\* ap_entry_fn with apic::init before initialize_own_core_local_data.
ap_entry_fn_order_apic_init_first ==
    <<"apic::init", "initialize_own_core_local_data", "interrupts::enable">>

\* kernel_main 84 .. 90; init_smp (88) wakes the APs after apic::init.
kernel_main_order ==
    <<"apic::create", "initialize_own_core_local_data", "apic::init",
      "interrupts::enable">>

\* ap_entry_fn 160 .. 172.
ap_entry_fn_order ==
    <<"initialize_own_core_local_data", "apic::init", "interrupts::enable">>

BootOrder(c) == IF c = 0 THEN kernel_main_order ELSE ap_entry_fn_order

\* Whether core c has made the call.
BootDone(c, call) ==
    CASE call = "apic::create" -> apic.LOCAL_APIC_PTR
      [] call = "initialize_own_core_local_data" -> cpu[c].first # NoIndex
      [] call = "apic::init" ->
             core_local[OwnSlot(c)].apic_timer_ticks_per_second # 0
      [] call = "interrupts::enable" -> cpu[c].interrupts

\* The next call of core c in kernel code: the first one of its order that it
\* has not made, then main.
BootAt(c) ==
    LET left == {i \in DOMAIN BootOrder(c) : ~BootDone(c, BootOrder(c)[i])}
    IN  IF left = {} THEN "main"
        ELSE BootOrder(c)[CHOOSE i \in left : \A j \in left : i <= j]

\* The BSP runs from power-on; an AP runs once init_smp has sent the startup
\* IPIs, which is after the BSP's apic::init.
BootStarted(c) == c = 0 \/ BootAt(0) \in {"interrupts::enable", "main"}

\* cpu_index() and the loader (loader.rs 211, 223, 240, 272, 343): get_cld()
\* of a core in main, which leaves the fields of this model as they are.
CldMainGetCld(c) ==
    /\ CldAt(c, "kernel")
    /\ CldGetCld(c, LAMBDA slot : slot, apic)

\* The cores go through kernel_main and ap_entry_fn in the order of the
\* source, log on the way (try_get_cld), and in main start their timers (common_main.rs
\* 56, 195), call cpu_index and the loader, and take timer interrupts.
NextBootOrder ==
    \/ BootAt(0) = "apic::create" /\ CldApicCreate
    \/ \E c \in CldCores :
           /\ BootStarted(c) /\ BootAt(c) = "initialize_own_core_local_data"
           /\ CldInitializeOwnCoreLocalData(c, c)
    \/ \E c \in CldCores : BootStarted(c) /\ CldTryGetCld(c)
    \/ \E c \in CldCores :
           BootStarted(c) /\ BootAt(c) = "apic::init" /\ CldApicInit(c)
    \/ \E c \in CldCores :
           /\ BootStarted(c) /\ BootAt(c) = "interrupts::enable"
           /\ CldEnableInterrupts(c)
    \/ \E c \in CldCores :
           BootStarted(c) /\ BootAt(c) = "main" /\ CldMainGetCld(c)
    \/ \E c \in CldCores, interrupt \in TimerCallbacks :
           BootStarted(c) /\ BootAt(c) = "main" /\ CldStartTimer(c, interrupt)
    \/ \E c \in CldCores, source \in VectorSources :
           BootStarted(c) /\ CldTimerFires(c, source)
    \/ \E c \in CldCores : CldTimerInterrupt(c)
    \/ \E c \in CldCores : CldCallback(c)
    \/ \E c \in CldCores : CldSignalEndOfInterrupt(c)

SpecBootOrder == InitCoreLocal /\ [][NextBootOrder]_vars

\* The panics of a use before initialisation: get_apic, get_cld, and the
\* unwrap of start_timer.
UseBeforeInitPanics ==
    {"APIC not initialized", "core local data not initialized",
     "called Option::unwrap() on a None value"}

\* Core c has come to its slot through get_cld in this step: it has stored the
\* ticks per second or a callback, or the handler has read the callback.
GetsCld(c) ==
    \/ core_local'[OwnSlot(c)].apic_timer_ticks_per_second
           # core_local[OwnSlot(c)].apic_timer_ticks_per_second
    \/ core_local'[OwnSlot(c)].apic_timer_interrupt_function
           # core_local[OwnSlot(c)].apic_timer_interrupt_function
    \/ cpu[c].pc = "timer_interrupt" /\ cpu'[c].pc # "timer_interrupt"

\* Core c has called start_timer in this step.
StartsTimer(c) ==
    \/ core_local'[OwnSlot(c)].apic_timer_interrupt_function
           # core_local[OwnSlot(c)].apic_timer_interrupt_function
    \/ apic.regs[c].lvt_masked /\ ~apic'.regs[c].lvt_masked

(* C40: there is no use before initialisation of per-core state: on every    *)
(* core, BSP and AP, initialize_own_core_local_data has completed before the *)
(* first get_cld of that core (calibration, start_timer, the timer interrupt *)
(* handler, the loader), and the calibration has stored ticks_per_second     *)
(* before the core's first start_timer; get_cld never finds an empty slot    *)
(* and start_timer never finds ticks_per_second unset.                       *)
C40_NoUseBeforeInit ==
    /\ [](\A c \in CldCores :
              /\ cpu[c].panic \notin UseBeforeInitPanics
              /\ cpu[c].got # NoIndex => core_local[OwnSlot(c)].init
              /\ cpu[c].pc \in {"timer_interrupt", "callback",
                                "signal_end_of_interrupt"}
                     => core_local[OwnSlot(c)].init
              /\ ~apic.regs[c].lvt_masked
                     => core_local[OwnSlot(c)].apic_timer_ticks_per_second # 0)
    /\ [][\A c \in CldCores :
              /\ GetsCld(c) => apic.LOCAL_APIC_PTR /\ core_local[OwnSlot(c)].init
                               /\ cpu[c].first # NoIndex
              /\ StartsTimer(c)
                     => core_local[OwnSlot(c)].apic_timer_ticks_per_second # 0]_vars

\* Both cores (one of them with APIC ID 255) have calibrated, started their
\* timers from main and returned from a timer interrupt that called the
\* callback.
C40_Witness ==
    /\ \E c \in CldCores : OwnSlot(c) = 255
    /\ \A c \in CldCores :
           /\ BootAt(c) = "main" /\ cpu[c].pc = "kernel"
           /\ cpu[c].got = OwnSlot(c)
           /\ ~apic.regs[c].lvt_masked
           /\ core_local[OwnSlot(c)].apic_timer_interrupt_function.by = c
           /\ \E k \in DOMAIN cpu[c].irq :
                  /\ cpu[c].irq[k].eoi = 1
                  /\ Len(cpu[c].irq[k].invoked) = 1

====
